---------------------------- MODULE Spec2Model ----------------------------
(***************************************************************************)
(* A model of the ibu crate (noamteyssier/ibu).                            *)
(*                                                                         *)
(* Part 1: MmapReader::process_parallel (src/src/io/mmap.rs), the          *)
(* fork-join coordinator that partitions the records of a memory-mapped    *)
(* file over OS threads and drives a caller-supplied ParallelProcessor     *)
(* (src/src/parallel.rs) over them.                                        *)
(*                                                                         *)
(* File indices are 0-based as in the source; the record region of the     *)
(* mapping is a TLA+ sequence, so the record at file index i is            *)
(* records[i + 1].                                                         *)
(***************************************************************************)
EXTENDS Integers, Sequences, FiniteSets, TLC

(***************************************************************************)
(* Bounds of the model.                                                    *)
(***************************************************************************)
\* largest number of records in the mapped file
MaxLen == 5
\* largest num_threads argument passed to process_parallel
MaxThreads == 4
\* largest value num_cpus::get() returns on the modelled hosts
MaxCpus == 4
\* the chunk size the model runs with; see BATCH_SIZE
BatchScale == 2

Min(a, b) == IF a < b THEN a ELSE b

(***************************************************************************)
(* Records and results.                                                    *)
(***************************************************************************)
\* Record::new(barcode, umi, index)
Record(barcode, umi, index) == [barcode |-> barcode, umi |-> umi, index |-> index]

\* The files of the tests of mmap.rs with n records: Record::new(i, i * 2, i * 3)
\* (test_mmap_reader_parallel_processing) and Record::new(i, 0, 0)
\* (test_mmap_reader_parallel_auto_threads), for i in 0..n.
TestFiles(n) == {[x \in 1..n |-> Record(x - 1, (x - 1) * 2, (x - 1) * 3)],
                 [x \in 1..n |-> Record(x - 1, 0, 0)]}

\* crate::Result<()>: Ok(()), or Err(e).  "Pending" is the content of a
\* JoinHandle whose thread has not terminated yet.  `by`, `idx` name the
\* processor clone and the call that produced a Process error (the boxed
\* error is the caller's own value); for InvalidIndex, idx and max are the
\* fields of the variant.
Pending == [tag |-> "Pending", kind |-> "", by |-> 0, idx |-> 0, max |-> 0]
Ok == [tag |-> "Ok", kind |-> "", by |-> 0, idx |-> 0, max |-> 0]
ProcessError(by, idx) ==
    [tag |-> "Err", kind |-> "Process", by |-> by, idx |-> idx, max |-> 0]
InvalidIndex(idx, max) ==
    [tag |-> "Err", kind |-> "InvalidIndex", by |-> 0, idx |-> idx, max |-> max]

\* pub const BATCH_SIZE: usize = 1024 * 1024, scaled down to BatchScale so
\* that ranges of several chunks and partial chunks are within MaxLen.
BATCH_SIZE == BatchScale

VARIABLES
    records,        \* MmapReader: the record region of the mapping
    num_threads_arg,\* the num_threads argument of process_parallel
    num_cpus,       \* what num_cpus::get() returns on this host
    pc,             \* coordinator: "idle", "spawn", "join", "returned"
    num_threads,    \* the shadowed num_threads of process_parallel
    i,              \* index of the spawn loop, then of the join loop
    workers,        \* per spawned thread: its closure's captured and local state
    log,            \* per spawned thread: the calls made on its processor clone
    global_count,   \* TestProcessor.global_count (shared by all clones)
    global_sum,     \* TestProcessor.global_sum (shared by all clones)
    ret,            \* what process_parallel returned
    late_calls,     \* processor calls made after process_parallel returned
    first_failed    \* the worker that failed first in time, -1 while none has

parVars == <<records, num_threads_arg, num_cpus, pc, num_threads, i, workers, log,
             global_count, global_sum, ret, late_calls, first_failed>>

VARIABLES
    wheader,        \* the header handed to Writer::new
    writer,         \* the Writer built by Writer::new
    wstate,         \* "none", "open", "failed" (Writer::new erred), "dropped", "taken"
    aux,            \* a headless Writer<Vec<u8>>, the argument of ingest
    astate,         \* "none", "open"
    sink,           \* the main writer's sink once the writer is gone
    last,           \* the last call on the main writer: its name, its result, the
                    \* number of records handed to it, the cursor before it
    accepted,       \* the records of the calls on the main writer that returned Ok
    aux_held,       \* the records written to aux and not yet ingested
    given,          \* the number of records handed to the two writers so far
    source,         \* the byte source handed to Reader::new
    reader,         \* the Reader built by Reader::new
    rstate,         \* "none", "open", "failed" (Reader::new erred)
    rnew,           \* the outcome of Reader::new
    yielded         \* the items the reader's iterator has yielded so far

ioVars == <<wheader, writer, wstate, aux, astate, sink, last, accepted,
            aux_held, given, source, reader, rstate, rnew, yielded>>

VARIABLES
    file,           \* the bytes of the file handed to MmapReader::new and load_to_vec
    mstate,         \* "none", "open", "failed" (MmapReader::new erred or panicked)
    mres,           \* what MmapReader::new returned
    mheader,        \* MmapReader.header
    lstate,         \* "none", "done" (load_to_vec has returned)
    lout,           \* the outcome of load_to_vec
    sliced          \* the last call of MmapReader::slice: its arguments and outcome

fileVars == <<file, mstate, mres, mheader, lstate, lout, sliced>>

VARIABLES
    cin,            \* the header or the records handed to the codec
    cstate,         \* "none", what cin is, or what was done with it
    cout            \* what the codec returned

codecVars == <<cin, cstate, cout>>

vars == <<parVars, ioVars, fileVars, codecVars>>

\* no writer, sink, source or reader exists
Absent == <<>>

\* the state of the writers and the reader before any of them is built
IoIdle ==
    /\ wheader = Absent
    /\ writer = Absent
    /\ wstate = "none"
    /\ aux = Absent
    /\ astate = "none"
    /\ sink = Absent
    /\ last = Absent
    /\ accepted = <<>>
    /\ aux_held = <<>>
    /\ given = 0
    /\ source = Absent
    /\ reader = Absent
    /\ rstate = "none"
    /\ rnew = Absent
    /\ yielded = <<>>

\* the state of a program that does not call the codec itself
CodecIdle ==
    /\ cin = <<>>
    /\ cstate = "none"
    /\ cout = <<>>

\* no call of MmapReader::slice yet
NoSlice == [start |-> 0, end |-> 0, res |-> Pending, records |-> <<>>]

\* the state of the file readers before any of them is built
FileIdle ==
    /\ file = <<>>
    /\ mstate = "none"
    /\ mres = Absent
    /\ mheader = Absent
    /\ lstate = "none"
    /\ lout = Absent
    /\ sliced = NoSlice

\* MmapReader::len
ReaderLen == Len(records)

(***************************************************************************)
(* MmapReader::slice                                                       *)
(***************************************************************************)
\* faulty variant of SliceCheck: an empty or inverted range within the
\* bounds is let through
SliceCheckBoundsOnly(start, end) ==
    IF start >= ReaderLen \/ end > ReaderLen THEN InvalidIndex(end, ReaderLen)
    ELSE Ok

\* faulty variant of SliceCheck: the first check reports start
SliceCheckNamesStart(start, end) ==
    IF start >= ReaderLen \/ end > ReaderLen THEN InvalidIndex(start, ReaderLen)
    ELSE IF end <= start THEN InvalidIndex(end, ReaderLen)
    ELSE Ok

\* the bounds check of slice: Ok, or the InvalidIndex it returns
SliceCheck(start, end) ==
    IF start >= ReaderLen \/ end > ReaderLen THEN InvalidIndex(end, ReaderLen)
    ELSE IF end <= start THEN InvalidIndex(end, ReaderLen)
    ELSE Ok

\* the records of a successful slice(start, end): file indices start..end-1
SliceRecords(start, end) == SubSeq(records, start + 1, end)

(***************************************************************************)
(* process_parallel: partitioning                                          *)
(***************************************************************************)
\* faulty variants of NumThreads: the requested count taken as it is; the
\* host's count capped at the number of records
NumThreadsUncapped(n, cpus) == IF n = 0 THEN cpus ELSE n
NumThreadsCappedAtLen(n, cpus) == IF n = 0 THEN Min(cpus, ReaderLen) ELSE Min(n, cpus)

\* lines 292-296: 0 asks for num_cpus::get(), any other count is capped by it
NumThreads(n, cpus) == IF n = 0 THEN cpus ELSE Min(n, cpus)

records_per_thread == ReaderLen \div num_threads
remainder == ReaderLen % num_threads

RangeStart(t) == t * records_per_thread

\* faulty variants of RangeEnd: the remainder dropped; the remainder given to thread 0
RangeEndNoRemainder(t) == RangeStart(t) + records_per_thread
RangeEndRemainderFirst(t) ==
    IF t = 0
    THEN RangeStart(t) + records_per_thread + remainder
    ELSE RangeStart(t) + records_per_thread

RangeEnd(t) ==
    IF t = num_threads - 1
    THEN RangeStart(t) + records_per_thread + remainder
    ELSE RangeStart(t) + records_per_thread

\* faulty variant of BatchEnd: the whole range taken as one chunk
BatchEndWholeRange(batch_start, end) == end

\* faulty variant of BatchEnd: the chunk is not cut at the end of the range
BatchEndUncapped(batch_start, end) == batch_start + BATCH_SIZE

BatchEnd(batch_start, end) == Min(batch_start + BATCH_SIZE, end)

\* faulty variant of NextBatchStart: the next chunk overlaps the last record of this one
NextBatchStartOverlap(batch_start) == batch_start + BATCH_SIZE - 1

NextBatchStart(batch_start) == batch_start + BATCH_SIZE

(***************************************************************************)
(* The processor: TestProcessor of mmap.rs, whose process_record and       *)
(* on_batch_complete may in addition fail (ErrorProcessor of parallel.rs). *)
(***************************************************************************)
\* processor.clone(): fresh thread-local state, tid unset (get_tid() = None)
CloneProcessor == [local_count |-> 0, local_sum |-> 0, tid |-> -1, set_tid_calls |-> 0]

RecordSum(r) == r.barcode + r.umi + r.index

\* TestProcessor::process_record
ProcessRecord(p, r) ==
    [p EXCEPT !.local_count = @ + 1, !.local_sum = @ + RecordSum(r)]

\* faulty variant of ResetLocal: the thread-local accumulators are not cleared
ResetLocalKeep(p) == p

\* TestProcessor::on_batch_complete, the thread-local part
ResetLocal(p) == [p EXCEPT !.local_count = 0, !.local_sum = 0]

RecordCall(idx, r) == [op |-> "process_record", idx |-> idx, rec |-> r]
BatchCall == [op |-> "on_batch_complete", idx |-> 0, rec |-> Record(0, 0, 0)]

(***************************************************************************)
(* Initial states: a mapped file of 0..MaxLen records, a requested thread  *)
(* count and a host.                                                       *)
(***************************************************************************)
Files == UNION {TestFiles(n) : n \in 0..MaxLen}

ParInit ==
    /\ records \in Files
    /\ num_threads_arg \in 0..MaxThreads
    /\ num_cpus \in 1..MaxCpus
    /\ pc = "idle"
    /\ num_threads = 0
    /\ i = 0
    /\ workers = <<>>
    /\ log = <<>>
    /\ global_count = 0
    /\ global_sum = 0
    /\ ret = Pending
    /\ late_calls = 0
    /\ first_failed = -1
    /\ IoIdle
    /\ FileIdle
    /\ CodecIdle

Spawned == DOMAIN workers

(***************************************************************************)
(* The coordinator                                                         *)
(***************************************************************************)
\* entry of process_parallel: the thread count
Call ==
    /\ pc = "idle"
    /\ num_threads' = NumThreads(num_threads_arg, num_cpus)
    /\ pc' = "spawn"
    /\ i' = 0
    /\ UNCHANGED <<records, num_threads_arg, num_cpus, workers, log, global_count,
                   global_sum, ret, late_calls, first_failed, ioVars, fileVars, codecVars>>

\* the closure handed to thread::spawn in iteration t of the first loop
NewWorker(t) ==
    [state |-> "loop",
     start |-> RangeStart(t),
     end |-> RangeEnd(t),
     batch_start |-> RangeStart(t),
     batch_end |-> RangeStart(t),
     slice |-> <<>>,
     k |-> 0,
     thread_processor |-> CloneProcessor,
     result |-> Pending]

\* one iteration of `for i in 0..num_threads`: spawn thread i, push its handle
Spawn ==
    /\ pc = "spawn"
    /\ i < num_threads
    /\ workers' = [t \in Spawned \cup {i} |-> IF t = i THEN NewWorker(i) ELSE workers[t]]
    /\ log' = [t \in Spawned \cup {i} |-> IF t = i THEN <<>> ELSE log[t]]
    /\ IF i + 1 < num_threads
       THEN /\ i' = i + 1
            /\ pc' = "spawn"
       ELSE /\ i' = 0
            /\ pc' = "join"
    /\ UNCHANGED <<records, num_threads_arg, num_cpus, num_threads, global_count,
                   global_sum, ret, late_calls, first_failed, ioVars, fileVars, codecVars>>

\* faulty variant of Join: the error returned is the one that occurred first in time
JoinFirstFailed ==
    /\ pc = "join"
    /\ i < num_threads
    /\ workers[i].state = "done"
    /\ IF workers[i].result.tag = "Err"
       THEN /\ ret' = workers[first_failed].result
            /\ pc' = "returned"
            /\ i' = i
       ELSE IF i + 1 < num_threads
       THEN /\ i' = i + 1
            /\ pc' = "join"
            /\ ret' = ret
       ELSE /\ i' = i
            /\ pc' = "returned"
            /\ ret' = Ok
    /\ UNCHANGED <<records, num_threads_arg, num_cpus, num_threads, workers, log,
                   global_count, global_sum, late_calls, first_failed, ioVars, fileVars, codecVars>>

\* one iteration of `for handle in handles { handle.join().unwrap()?; }`:
\* blocks until thread i has terminated; its Err returns from process_parallel
\* at once, and the handles not yet joined are dropped (their threads detach)
Join ==
    /\ pc = "join"
    /\ i < num_threads
    /\ workers[i].state = "done"
    /\ IF workers[i].result.tag = "Err"
       THEN /\ ret' = workers[i].result
            /\ pc' = "returned"
            /\ i' = i
       ELSE IF i + 1 < num_threads
       THEN /\ i' = i + 1
            /\ pc' = "join"
            /\ ret' = ret
       ELSE /\ i' = i
            /\ pc' = "returned"
            /\ ret' = Ok
    /\ UNCHANGED <<records, num_threads_arg, num_cpus, num_threads, workers, log,
                   global_count, global_sum, late_calls, first_failed, ioVars, fileVars, codecVars>>

(***************************************************************************)
(* The worker threads                                                      *)
(***************************************************************************)
\* a processor call made now is a late one when process_parallel has returned
Late == IF pc = "returned" THEN late_calls + 1 ELSE late_calls

\* faulty variant of Fail: the error is kept but the closure does not return
FailKeepRunning(t, e) ==
    /\ workers' = [workers EXCEPT ![t].result = e]
    /\ first_failed' = IF first_failed = -1 THEN t ELSE first_failed

\* the ? operator of the closure: the thread terminates with Err(e)
Fail(t, e) ==
    /\ workers' = [workers EXCEPT ![t].state = "done", ![t].result = e]
    /\ first_failed' = IF first_failed = -1 THEN t ELSE first_failed

\* `while batch_start < end`, batch_end and the slice of the chunk
WorkerLoop(t) ==
    /\ workers[t].state = "loop"
    /\ LET w == workers[t]
           batch_end == BatchEnd(w.batch_start, w.end)
           chk == SliceCheck(w.batch_start, batch_end)
       IN IF w.batch_start < w.end
          THEN IF chk.tag = "Err"
               THEN Fail(t, chk)
               ELSE /\ workers' = [workers EXCEPT
                          ![t].batch_end = batch_end,
                          ![t].slice = SliceRecords(w.batch_start, batch_end),
                          ![t].k = 0,
                          ![t].state = "records"]
                    /\ UNCHANGED first_failed
          ELSE /\ workers' = [workers EXCEPT ![t].state = "done", ![t].result = Ok]
               /\ UNCHANGED first_failed
    /\ UNCHANGED <<records, num_threads_arg, num_cpus, pc, num_threads, i, log,
                   global_count, global_sum, ret, late_calls, ioVars, fileVars, codecVars>>

\* one iteration of `for record in slice`: process_record(*record)?
WorkerRecord(t) ==
    /\ workers[t].state = "records"
    /\ LET w == workers[t]
           r == w.slice[w.k + 1]
           idx == w.batch_start + w.k
       IN /\ log' = [log EXCEPT ![t] = Append(@, RecordCall(idx, r))]
          /\ \/ /\ workers' = [workers EXCEPT
                      ![t].thread_processor = ProcessRecord(@, r),
                      ![t].k = w.k + 1,
                      ![t].state = IF w.k + 1 < Len(w.slice) THEN "records" ELSE "batch"]
                /\ UNCHANGED first_failed
             \/ Fail(t, ProcessError(t, idx))
    /\ late_calls' = Late
    /\ UNCHANGED <<records, num_threads_arg, num_cpus, pc, num_threads, i,
                   global_count, global_sum, ret, ioVars, fileVars, codecVars>>

\* on_batch_complete()?; batch_start += BATCH_SIZE
WorkerBatch(t) ==
    /\ workers[t].state = "batch"
    /\ LET w == workers[t]
       IN /\ log' = [log EXCEPT ![t] = Append(@, BatchCall)]
          /\ \/ /\ workers' = [workers EXCEPT
                      ![t].thread_processor = ResetLocal(@),
                      ![t].batch_start = NextBatchStart(w.batch_start),
                      ![t].state = "loop"]
                /\ global_count' = global_count + w.thread_processor.local_count
                /\ global_sum' = global_sum + w.thread_processor.local_sum
                /\ UNCHANGED first_failed
             \/ /\ Fail(t, ProcessError(t, w.batch_end))
                /\ UNCHANGED <<global_count, global_sum>>
    /\ late_calls' = Late
    /\ UNCHANGED <<records, num_threads_arg, num_cpus, pc, num_threads, i, ret, ioVars, fileVars, codecVars>>

\* faulty variant of Worker: the threads stop once one of them has failed
WorkerStopOnFailure ==
    /\ first_failed = -1
    /\ \E t \in Spawned : WorkerLoop(t) \/ WorkerRecord(t) \/ WorkerBatch(t)

Worker == \E t \in Spawned : WorkerLoop(t) \/ WorkerRecord(t) \/ WorkerBatch(t)

ParNext == Call \/ Spawn \/ Join \/ Worker

SpecParallel == ParInit /\ [][ParNext]_vars

\* a step of thread t
WorkerStep(t) == Worker /\ t \in Spawned /\ workers'[t] # workers[t]

\* The OS schedules every spawned thread that can run, and the coordinator.
SpecParallelFair ==
    /\ ParInit
    /\ [][ParNext]_vars
    /\ \A t \in 0..MaxCpus - 1 : WF_vars(WorkerStep(t))
    /\ WF_vars(Call \/ Spawn \/ Join)

(***************************************************************************)
(* Part 2: the binary layout (src/src/constructs), the buffered Writer     *)
(* (src/src/io/writer.rs) and the streaming Reader (src/src/io/reader.rs). *)
(* Byte strings are sequences of numbers in 0..255.                        *)
(***************************************************************************)
\* largest number of records handed to the writers in one run
MaxRecords == 4
\* largest batch handed to write_batch or write_iter
MaxBatch == 3
\* the capacity of the writer's and the reader's buffer, in records; see
\* DEFAULT_BUFFER_SIZE
BufferRecords == 2

MAGIC == 559235657
VERSION == 2
HEADER_SIZE == 32
RECORD_SIZE == 24

\* const DEFAULT_BUFFER_SIZE: usize = 48 * 1024 * RECORD_SIZE, scaled down to
\* BufferRecords records so that full buffers and direct writes are in reach.
DEFAULT_BUFFER_SIZE == BufferRecords * RECORD_SIZE

\* the n bytes of the unsigned integer v, least significant first
RECURSIVE LeBytes(_, _)
LeBytes(v, n) == IF n = 0 THEN <<>> ELSE <<v % 256>> \o LeBytes(v \div 256, n - 1)

\* the unsigned integer whose little-endian bytes are b
RECURSIVE FromLeBytes(_)
FromLeBytes(b) == IF b = <<>> THEN 0 ELSE Head(b) + 256 * FromLeBytes(Tail(b))

Zeros(n) == [k \in 1..n |-> 0]

\* Header { magic, version, bc_len, umi_len, flags, reserved }
Header(magic, version, bc_len, umi_len, flags, reserved) ==
    [magic |-> magic, version |-> version, bc_len |-> bc_len, umi_len |-> umi_len,
     flags |-> flags, reserved |-> reserved]

\* Header::new(bc_len, umi_len)
HeaderNew(bc_len, umi_len) == Header(MAGIC, VERSION, bc_len, umi_len, 0, Zeros(8))

\* Header::set_sorted
SetSorted(h) == [h EXCEPT !.flags = IF @ % 2 = 1 THEN @ ELSE @ + 1]

\* Header::as_bytes: the repr(C) struct as it lies in memory
HeaderBytes(h) ==
    LeBytes(h.magic, 4) \o LeBytes(h.version, 4) \o LeBytes(h.bc_len, 4)
        \o LeBytes(h.umi_len, 4) \o LeBytes(h.flags, 8) \o h.reserved

\* Header::from_bytes, of exactly HEADER_SIZE bytes
HeaderFromBytes(b) ==
    Header(FromLeBytes(SubSeq(b, 1, 4)), FromLeBytes(SubSeq(b, 5, 8)),
           FromLeBytes(SubSeq(b, 9, 12)), FromLeBytes(SubSeq(b, 13, 16)),
           FromLeBytes(SubSeq(b, 17, 24)), SubSeq(b, 25, 32))

\* Record::as_bytes
RecordBytes(r) == LeBytes(r.barcode, 8) \o LeBytes(r.umi, 8) \o LeBytes(r.index, 8)

\* Record::from_bytes, of exactly RECORD_SIZE bytes
RecordFromBytes(b) ==
    Record(FromLeBytes(SubSeq(b, 1, 8)), FromLeBytes(SubSeq(b, 9, 16)),
           FromLeBytes(SubSeq(b, 17, 24)))

\* bytemuck::cast_slice(records): the records' bytes, one after the other
RECURSIVE RecordsBytes(_)
RecordsBytes(rs) ==
    IF rs = <<>> THEN <<>> ELSE RecordBytes(Head(rs)) \o RecordsBytes(Tail(rs))

\* the records of a byte string of whole records
DecodeRecords(bytes) ==
    [k \in 1..(Len(bytes) \div RECORD_SIZE) |->
        RecordFromBytes(SubSeq(bytes, RECORD_SIZE * (k - 1) + 1, RECORD_SIZE * k))]

\* the errors of error.rs, in the shape of the results above
IoError == [tag |-> "Err", kind |-> "Io", by |-> 0, idx |-> 0, max |-> 0]
InvalidMagicNumber(expected, actual) ==
    [tag |-> "Err", kind |-> "InvalidMagicNumber", by |-> 0, idx |-> actual, max |-> expected]
InvalidVersion(expected, actual) ==
    [tag |-> "Err", kind |-> "InvalidVersion", by |-> 0, idx |-> actual, max |-> expected]
InvalidBarcodeLength(n) ==
    [tag |-> "Err", kind |-> "InvalidBarcodeLength", by |-> 0, idx |-> n, max |-> 0]
InvalidUmiLength(n) ==
    [tag |-> "Err", kind |-> "InvalidUmiLength", by |-> 0, idx |-> n, max |-> 0]
TruncatedRecord(pos) ==
    [tag |-> "Err", kind |-> "TruncatedRecord", by |-> 0, idx |-> pos, max |-> 0]

\* faulty variant of Validate: the lengths are checked before the version,
\* and a length of 32 is rejected
ValidateLengthsFirst(h) ==
    IF h.magic # MAGIC THEN InvalidMagicNumber(MAGIC, h.magic)
    ELSE IF h.bc_len = 0 \/ h.bc_len >= 32 THEN InvalidBarcodeLength(h.bc_len)
    ELSE IF h.umi_len = 0 \/ h.umi_len >= 32 THEN InvalidUmiLength(h.umi_len)
    ELSE IF h.version # VERSION THEN InvalidVersion(VERSION, h.version)
    ELSE Ok

\* Header::validate
Validate(h) ==
    IF h.magic # MAGIC THEN InvalidMagicNumber(MAGIC, h.magic)
    ELSE IF h.version # VERSION THEN InvalidVersion(VERSION, h.version)
    ELSE IF h.bc_len = 0 \/ h.bc_len > 32 THEN InvalidBarcodeLength(h.bc_len)
    ELSE IF h.umi_len = 0 \/ h.umi_len > 32 THEN InvalidUmiLength(h.umi_len)
    ELSE Ok

\* the headers of the model: valid ones (the boundary lengths, the sorted
\* flag, flag and reserved bytes in use) and one for each validation error
ValidHeaders ==
    {HeaderNew(16, 12), HeaderNew(1, 32), SetSorted(HeaderNew(32, 1)),
     Header(MAGIC, VERSION, 20, 10, 513, <<1, 2, 3, 4, 5, 6, 7, 255>>)}
InvalidHeaders ==
    {Header(305419896, VERSION, 16, 12, 0, Zeros(8)),
     Header(MAGIC, 999, 16, 12, 0, Zeros(8)),
     HeaderNew(0, 12), HeaderNew(33, 12), HeaderNew(16, 0), HeaderNew(16, 33)}
Headers == ValidHeaders \cup InvalidHeaders

\* the records handed to the writers
WriterRecords == {Record(1, 2, 3), Record(74565, 424080, 100)}

(***************************************************************************)
(* The byte sink of a writer (W: Write).  `budget` is the number of calls  *)
(* of the sink that succeed before one fails, -1 for a sink that does not  *)
(* fail (a Vec<u8>).  A `sticky` sink keeps failing after its first        *)
(* failure, another one works again.  `flushed` is the length of data at   *)
(* the last successful flush(), `faulted` tells whether a call has failed. *)
(***************************************************************************)
Sink(data, budget, sticky) ==
    [data |-> data, budget |-> budget, sticky |-> sticky, flushed |-> 0,
     faulted |-> FALSE]

\* Vec::new()
VecSink == Sink(<<>>, -1, FALSE)

Spend(budget) == IF budget > 0 THEN budget - 1 ELSE budget

\* the sink after a failed call: no byte is taken
SinkFailed(inner) ==
    [inner EXCEPT !.budget = IF inner.sticky THEN 0 ELSE -1, !.faulted = TRUE]

\* inner.write_all(bytes)
SinkWriteAll(inner, bytes) ==
    IF inner.budget = 0
    THEN [inner |-> SinkFailed(inner), res |-> IoError]
    ELSE [inner |-> [inner EXCEPT !.data = @ \o bytes, !.budget = Spend(@)],
          res |-> Ok]

\* inner.flush()
SinkFlush(inner) ==
    IF inner.budget = 0
    THEN [inner |-> SinkFailed(inner), res |-> IoError]
    ELSE [inner |-> [inner EXCEPT !.flushed = Len(inner.data), !.budget = Spend(@)],
          res |-> Ok]

(***************************************************************************)
(* Writer<W> { inner, buffer, pos, records_written }.  Each method is an   *)
(* operator from the writer before the call to the writer after it and the *)
(* result of the call.                                                     *)
(***************************************************************************)
Done(w, res) == [w |-> w, res |-> res]

\* Writer::new_headless(inner)
new_headless(inner) ==
    [inner |-> inner, buffer |-> Zeros(DEFAULT_BUFFER_SIZE), pos |-> 0,
     records_written |-> 0]

\* Writer::new(inner, header); on an error no writer is returned, and the w
\* of the outcome only holds the sink
Writer_new(inner, header) ==
    LET wr == SinkWriteAll(inner, HeaderBytes(header))
    IN  Done(new_headless(wr.inner), wr.res)

\* Writer::flush_buffer
flush_buffer(w) ==
    IF w.pos > 0
    THEN LET wr == SinkWriteAll(w.inner, SubSeq(w.buffer, 1, w.pos))
         IN  IF wr.res # Ok
             THEN Done([w EXCEPT !.inner = wr.inner], wr.res)
             ELSE Done([w EXCEPT !.inner = wr.inner, !.pos = 0], Ok)
    ELSE Done(w, Ok)

\* faulty variant of CopyIn: the bytes are copied to the start of the buffer
CopyInAtStart(w, bytes) ==
    [w EXCEPT !.buffer = [k \in 1..Len(w.buffer) |->
                             IF k <= Len(bytes) THEN bytes[k] ELSE w.buffer[k]],
              !.pos = @ + Len(bytes)]

\* self.buffer[self.pos..self.pos + n].copy_from_slice(bytes); self.pos += n
CopyIn(w, bytes) ==
    [w EXCEPT !.buffer = [k \in 1..Len(w.buffer) |->
                             IF k > w.pos /\ k <= w.pos + Len(bytes)
                             THEN bytes[k - w.pos] ELSE w.buffer[k]],
              !.pos = @ + Len(bytes)]

\* faulty variant of write_record: the buffer is flushed as soon as the
\* record would fill it
write_record_eager(w, record) ==
    LET f == IF w.pos + RECORD_SIZE >= Len(w.buffer) THEN flush_buffer(w) ELSE Done(w, Ok)
    IN  IF f.res # Ok THEN f
        ELSE Done([CopyIn(f.w, RecordBytes(record)) EXCEPT !.records_written = @ + 1], Ok)

\* Writer::write_record
write_record(w, record) ==
    LET f == IF w.pos + RECORD_SIZE > Len(w.buffer) THEN flush_buffer(w) ELSE Done(w, Ok)
    IN  IF f.res # Ok THEN f
        ELSE Done([CopyIn(f.w, RecordBytes(record)) EXCEPT !.records_written = @ + 1], Ok)

\* faulty variant of the loop of write_slice: a full buffer is emptied without
\* being written to the sink
RECURSIVE write_slice_loop_discarding(_, _)
write_slice_loop_discarding(w, remaining) ==
    IF remaining = <<>> THEN Done(w, Ok)
    ELSE LET available == Len(w.buffer) - w.pos
             to_write == Min(Len(remaining), available)
             w1 == CopyIn(w, SubSeq(remaining, 1, to_write))
             f == IF w1.pos >= Len(w1.buffer) THEN Done([w1 EXCEPT !.pos = 0], Ok)
                  ELSE Done(w1, Ok)
         IN  write_slice_loop_discarding(f.w, SubSeq(remaining, to_write + 1, Len(remaining)))

\* the while loop of write_slice
RECURSIVE write_slice_loop(_, _)
write_slice_loop(w, remaining) ==
    IF remaining = <<>> THEN Done(w, Ok)
    ELSE LET available == Len(w.buffer) - w.pos
             to_write == Min(Len(remaining), available)
             w1 == CopyIn(w, SubSeq(remaining, 1, to_write))
             f == IF w1.pos >= Len(w1.buffer) THEN flush_buffer(w1) ELSE Done(w1, Ok)
         IN  IF f.res # Ok THEN f
             ELSE write_slice_loop(f.w, SubSeq(remaining, to_write + 1, Len(remaining)))

\* faulty variant of write_slice: the direct path does not flush the buffer
write_slice_no_flush(w, buffer) ==
    LET num_records == Len(buffer) \div RECORD_SIZE
    IN  IF Len(buffer) > Len(w.buffer)
        THEN LET wr == SinkWriteAll(w.inner, buffer)
             IN  IF wr.res # Ok THEN Done([w EXCEPT !.inner = wr.inner], wr.res)
                 ELSE Done([w EXCEPT !.inner = wr.inner,
                                     !.records_written = @ + num_records], Ok)
        ELSE LET l == write_slice_loop(w, buffer)
             IN  IF l.res # Ok THEN l
                 ELSE Done([l.w EXCEPT !.records_written = @ + num_records], Ok)

\* faulty variant of write_slice: the direct path does not count the records
write_slice_direct_uncounted(w, buffer) ==
    LET num_records == Len(buffer) \div RECORD_SIZE
    IN  IF Len(buffer) > Len(w.buffer)
        THEN LET f == flush_buffer(w)
                 wr == SinkWriteAll(f.w.inner, buffer)
             IN  IF f.res # Ok THEN f
                 ELSE Done([f.w EXCEPT !.inner = wr.inner], wr.res)
        ELSE LET l == write_slice_loop(w, buffer)
             IN  IF l.res # Ok THEN l
                 ELSE Done([l.w EXCEPT !.records_written = @ + num_records], Ok)

\* Writer::write_slice
write_slice(w, buffer) ==
    LET num_records == Len(buffer) \div RECORD_SIZE
    IN  IF Len(buffer) > Len(w.buffer)
        THEN LET f == flush_buffer(w)
                 wr == SinkWriteAll(f.w.inner, buffer)
             IN  IF f.res # Ok THEN f
                 ELSE IF wr.res # Ok THEN Done([f.w EXCEPT !.inner = wr.inner], wr.res)
                 ELSE Done([f.w EXCEPT !.inner = wr.inner,
                                       !.records_written = @ + num_records], Ok)
        ELSE LET l == write_slice_loop(w, buffer)
             IN  IF l.res # Ok THEN l
                 ELSE Done([l.w EXCEPT !.records_written = @ + num_records], Ok)

\* Writer::write_batch
write_batch(w, batch) == write_slice(w, RecordsBytes(batch))

\* Writer::write_iter
RECURSIVE write_iter(_, _)
write_iter(w, batch) ==
    IF batch = <<>> THEN Done(w, Ok)
    ELSE LET r == write_record(w, Head(batch))
         IN  IF r.res # Ok THEN r ELSE write_iter(r.w, Tail(batch))

\* faulty variant of finish: the buffer is not written to the sink
finish_no_buffer_flush(w) ==
    LET fl == SinkFlush(w.inner)
    IN  Done([w EXCEPT !.inner = fl.inner], fl.res)

\* faulty variant of finish: the sink is not flushed
finish_no_sink_flush(w) == flush_buffer(w)

\* Writer::finish
finish(w) ==
    LET f == flush_buffer(w)
        fl == SinkFlush(f.w.inner)
    IN  IF f.res # Ok THEN f ELSE Done([f.w EXCEPT !.inner = fl.inner], fl.res)

\* faulty variant of ingest: the other writer's buffer is not flushed first
ingest_no_flush(w, other) ==
    LET s == write_slice(w, other.inner.data)
    IN  IF s.res # Ok THEN [w |-> s.w, other |-> other, res |-> s.res]
        ELSE [w |-> s.w, other |-> [other EXCEPT !.inner.data = <<>>], res |-> Ok]

\* faulty variant of ingest: the other writer's sink is not cleared
ingest_without_clear(w, other) ==
    LET f == flush_buffer(other)
        s == write_slice(w, f.w.inner.data)
    IN  IF f.res # Ok THEN [w |-> w, other |-> f.w, res |-> f.res]
        ELSE [w |-> s.w, other |-> f.w, res |-> s.res]

\* Writer::ingest
ingest(w, other) ==
    LET f == flush_buffer(other)
        s == write_slice(w, f.w.inner.data)
    IN  IF f.res # Ok THEN [w |-> w, other |-> f.w, res |-> f.res]
        ELSE IF s.res # Ok THEN [w |-> s.w, other |-> f.w, res |-> s.res]
        ELSE [w |-> s.w, other |-> [f.w EXCEPT !.inner.data = <<>>], res |-> Ok]

\* faulty variant of into_inner: the drop-time finish runs before the sink is
\* handed back
into_inner_after_drop(w) == finish(w).w.inner

\* Writer::into_inner: the sink as it is, without a finish
into_inner(w) == w.inner

\* faulty variant of drop: nothing is written
drop_nothing(w) == w

\* Drop for Writer: self.finish().ok()
drop(w) == finish(w).w

(***************************************************************************)
(* The byte source of a reader (R: Read).  `off` is the number of bytes    *)
(* delivered so far, `chunk` the most bytes one read() delivers (a source  *)
(* may deliver fewer bytes than asked for), `budget` the number of read()  *)
(* calls that succeed before one fails (-1: none fails), `reads` the       *)
(* number of read() calls made.                                            *)
(***************************************************************************)
Source(data, chunk, budget) ==
    [data |-> data, off |-> 0, chunk |-> chunk, budget |-> budget, reads |-> 0]

\* Cursor::new(bytes)
Cursor(data) == Source(data, Len(data) + 1, -1)

\* inner.read(buf) with a buf of n bytes: the bytes delivered, Ok(0) at the
\* end of the data
SourceRead(inner, n) ==
    IF inner.budget = 0
    THEN [inner |-> [inner EXCEPT !.budget = -1, !.reads = @ + 1],
          bytes |-> <<>>, res |-> IoError]
    ELSE LET k == Min(Min(n, inner.chunk), Len(inner.data) - inner.off)
         IN  [inner |-> [inner EXCEPT !.off = @ + k, !.budget = Spend(@),
                                      !.reads = @ + 1],
              bytes |-> SubSeq(inner.data, inner.off + 1, inner.off + k),
              res |-> Ok]

\* inner.read_exact(buf) with a buf of n bytes: read() until the buf is full;
\* a read of 0 bytes before that is the error UnexpectedEof
RECURSIVE SourceReadExact(_, _, _)
SourceReadExact(inner, got, n) ==
    IF Len(got) = n THEN [inner |-> inner, bytes |-> got, res |-> Ok]
    ELSE LET rd == SourceRead(inner, n - Len(got))
         IN  IF rd.res # Ok \/ rd.bytes = <<>>
             THEN [inner |-> rd.inner, bytes |-> got, res |-> IoError]
             ELSE SourceReadExact(rd.inner, got \o rd.bytes, n)

(***************************************************************************)
(* Reader<R> { inner, buffer, header, pos, cap, bytes_read, eof }          *)
(***************************************************************************)
\* faulty variant of Reader_new: the header is not validated
Reader_new_unchecked(inner) ==
    LET rd == SourceReadExact(inner, <<>>, HEADER_SIZE)
        r == [inner |-> rd.inner, buffer |-> <<>>,
              header |-> IF rd.res = Ok THEN HeaderFromBytes(rd.bytes)
                         ELSE HeaderNew(0, 0),
              pos |-> 0, cap |-> 0, bytes_read |-> HEADER_SIZE, eof |-> FALSE]
    IN  Done(r, rd.res)

\* Reader::new(inner); on an error no reader is returned, and the w of the
\* outcome only holds the source
Reader_new(inner) ==
    LET rd == SourceReadExact(inner, <<>>, HEADER_SIZE)
        header == HeaderFromBytes(rd.bytes)
        r == [inner |-> rd.inner, buffer |-> <<>>,
              header |-> IF rd.res = Ok THEN header ELSE HeaderNew(0, 0),
              pos |-> 0, cap |-> 0, bytes_read |-> HEADER_SIZE, eof |-> FALSE]
    IN  IF rd.res # Ok THEN Done(r, rd.res)
        ELSE IF Validate(header) # Ok THEN Done(r, Validate(header))
        ELSE Done(r, Ok)

\* faulty variant of read_batch_loop: one read of the source for a refill
read_batch_loop_one_read(r, read) ==
    LET rd == SourceRead(r.inner, Len(r.buffer) - read)
        r1 == [r EXCEPT !.inner = rd.inner,
                        !.buffer = [k \in 1..Len(r.buffer) |->
                                       IF k > read /\ k <= read + Len(rd.bytes)
                                       THEN rd.bytes[k - read] ELSE r.buffer[k]]]
    IN  [w |-> r1, read |-> read + Len(rd.bytes), res |-> rd.res]

\* the while loop of read_batch: the reader after it, the number of bytes
\* read and the result of the last read
RECURSIVE read_batch_loop(_, _)
read_batch_loop(r, read) ==
    IF read >= Len(r.buffer) THEN [w |-> r, read |-> read, res |-> Ok]
    ELSE LET rd == SourceRead(r.inner, Len(r.buffer) - read)
             r1 == [r EXCEPT !.inner = rd.inner,
                             !.buffer = [k \in 1..Len(r.buffer) |->
                                            IF k > read /\ k <= read + Len(rd.bytes)
                                            THEN rd.bytes[k - read] ELSE r.buffer[k]]]
         IN  IF rd.res # Ok THEN [w |-> r1, read |-> read, res |-> rd.res]
             ELSE IF rd.bytes = <<>> THEN [w |-> r1, read |-> read, res |-> Ok]
             ELSE read_batch_loop(r1, read + Len(rd.bytes))

\* faulty variant of read_batch: the pos of TruncatedRecord counts from the
\* start of the refill
read_batch_pos_in_refill(r) ==
    LET r0 == IF Len(r.buffer) # DEFAULT_BUFFER_SIZE
              THEN [r EXCEPT !.buffer = @ \o Zeros(DEFAULT_BUFFER_SIZE - Len(@))]
              ELSE r
        l == read_batch_loop(r0, 0)
        non_rem == l.read - (l.read % RECORD_SIZE)
    IN  IF l.res # Ok THEN [w |-> l.w, res |-> l.res, val |-> FALSE]
        ELSE IF l.read % RECORD_SIZE # 0
        THEN [w |-> l.w, res |-> TruncatedRecord(HEADER_SIZE + non_rem), val |-> FALSE]
        ELSE [w |-> [l.w EXCEPT !.pos = 0, !.cap = l.read \div RECORD_SIZE,
                                !.bytes_read = @ + l.read],
              res |-> Ok, val |-> l.read > 0]

\* faulty variant of read_batch: the complete records of a refill that ends
\* in an incomplete one are made available before the error is returned
read_batch_keeps_complete(r) ==
    LET r0 == IF Len(r.buffer) # DEFAULT_BUFFER_SIZE
              THEN [r EXCEPT !.buffer = @ \o Zeros(DEFAULT_BUFFER_SIZE - Len(@))]
              ELSE r
        l == read_batch_loop(r0, 0)
        non_rem == l.read - (l.read % RECORD_SIZE)
    IN  IF l.res # Ok THEN [w |-> l.w, res |-> l.res, val |-> FALSE]
        ELSE IF l.read % RECORD_SIZE # 0
        THEN [w |-> [l.w EXCEPT !.pos = 0, !.cap = non_rem \div RECORD_SIZE,
                                !.bytes_read = @ + non_rem],
              res |-> TruncatedRecord(r.bytes_read + non_rem), val |-> FALSE]
        ELSE [w |-> [l.w EXCEPT !.pos = 0, !.cap = l.read \div RECORD_SIZE,
                                !.bytes_read = @ + l.read],
              res |-> Ok, val |-> l.read > 0]

\* Reader::read_batch: val is the bool of an Ok
read_batch(r) ==
    LET r0 == IF Len(r.buffer) # DEFAULT_BUFFER_SIZE
              THEN [r EXCEPT !.buffer = @ \o Zeros(DEFAULT_BUFFER_SIZE - Len(@))]
              ELSE r
        l == read_batch_loop(r0, 0)
        non_rem == l.read - (l.read % RECORD_SIZE)
    IN  IF l.res # Ok THEN [w |-> l.w, res |-> l.res, val |-> FALSE]
        ELSE IF l.read % RECORD_SIZE # 0
        THEN [w |-> l.w, res |-> TruncatedRecord(r.bytes_read + non_rem), val |-> FALSE]
        ELSE [w |-> [l.w EXCEPT !.pos = 0, !.cap = l.read \div RECORD_SIZE,
                                !.bytes_read = @ + l.read],
              res |-> Ok, val |-> l.read > 0]

\* the items of the iterator: None, Some(Ok(record)), Some(Err(e))
None == [some |-> FALSE, res |-> Ok, record |-> Record(0, 0, 0)]
SomeOk(record) == [some |-> TRUE, res |-> Ok, record |-> record]
SomeErr(e) == [some |-> TRUE, res |-> e, record |-> Record(0, 0, 0)]

\* faulty variant of next: the eof flag is not looked at on entry
next_without_eof_check(r) ==
    LET b == IF r.pos >= r.cap THEN read_batch(r)
             ELSE [w |-> r, res |-> Ok, val |-> TRUE]
        r1 == IF b.res = Ok /\ ~b.val THEN [b.w EXCEPT !.eof = TRUE] ELSE b.w
        lpos == RECORD_SIZE * r1.pos
    IN  IF b.res # Ok THEN [w |-> b.w, item |-> SomeErr(b.res)]
        ELSE IF r1.eof THEN [w |-> r1, item |-> None]
        ELSE [w |-> [r1 EXCEPT !.pos = @ + 1],
              item |-> SomeOk(RecordFromBytes(
                           SubSeq(r1.buffer, lpos + 1, lpos + RECORD_SIZE)))]

\* Iterator::next for Reader
next(r) ==
    IF r.eof THEN [w |-> r, item |-> None]
    ELSE LET b == IF r.pos >= r.cap THEN read_batch(r)
                  ELSE [w |-> r, res |-> Ok, val |-> TRUE]
             r1 == IF b.res = Ok /\ ~b.val THEN [b.w EXCEPT !.eof = TRUE] ELSE b.w
             lpos == RECORD_SIZE * r1.pos
         IN  IF b.res # Ok THEN [w |-> b.w, item |-> SomeErr(b.res)]
             ELSE IF r1.eof THEN [w |-> r1, item |-> None]
             ELSE [w |-> [r1 EXCEPT !.pos = @ + 1],
                   item |-> SomeOk(RecordFromBytes(
                                SubSeq(r1.buffer, lpos + 1, lpos + RECORD_SIZE)))]

(***************************************************************************)
(* The programs using the writers and the reader: they build a Writer over *)
(* a sink and write to it; some write to a headless writer as well and     *)
(* ingest it, the others drop the writer or take its sink back, and read   *)
(* the sink's bytes back with a Reader.                                    *)
(***************************************************************************)
\* the most calls of a sink that succeed before one fails
MaxBudget == 2

\* the most items pulled from a reader
MaxItems == MaxRecords + 2

\* the sinks that fail
FailingSinks == {Sink(<<>>, b, st) : b \in 0..MaxBudget, st \in BOOLEAN}

\* the arguments of Writer::new: every header with a sink that does not fail,
\* and the failing sinks with one header
NewArgs == (Headers \X {VecSink}) \cup ({HeaderNew(16, 12)} \X FailingSinks)

\* the slices handed to write_batch and write_iter
Batches == UNION {[1..n -> WriterRecords] : n \in 0..MaxBatch}

\* process_parallel is not in use
ParIdle ==
    /\ records = <<>>
    /\ num_threads_arg = 0
    /\ num_cpus = 1
    /\ pc = "idle"
    /\ num_threads = 0
    /\ i = 0
    /\ workers = <<>>
    /\ log = <<>>
    /\ global_count = 0
    /\ global_sum = 0
    /\ ret = Pending
    /\ late_calls = 0
    /\ first_failed = -1

WriterInit == ParIdle /\ IoIdle /\ FileIdle /\ CodecIdle

\* the call of a method on the main writer: its name, its result, the number
\* of records handed to it, the cursor of the writer before it
CallOf(op, res, batch, pos) == [op |-> op, res |-> res, n |-> Len(batch), pos |-> pos]

\* let mut writer = Writer::new(inner, header)?
New ==
    /\ wstate = "none"
    /\ \E args \in NewArgs :
          LET h == args[1]
              r == Writer_new(args[2], h)
          IN  /\ wheader' = h
              /\ last' = CallOf("new", r.res, <<>>, 0)
              /\ IF r.res = Ok
                 THEN /\ writer' = r.w
                      /\ wstate' = "open"
                      /\ sink' = sink
                 ELSE /\ writer' = Absent
                      /\ wstate' = "failed"
                      /\ sink' = r.w.inner
    /\ UNCHANGED <<parVars, fileVars, codecVars, aux, astate, accepted, aux_held, given, source,
                   reader, rstate, rnew, yielded>>

\* the effect of a call on the main writer with outcome r
Called(op, batch, r) ==
    /\ writer' = r.w
    /\ last' = CallOf(op, r.res, batch, writer.pos)
    /\ accepted' = IF r.res = Ok THEN accepted \o batch ELSE accepted
    /\ given' = given + Len(batch)
    /\ UNCHANGED <<parVars, fileVars, codecVars, wheader, wstate, aux, astate, sink, aux_held, source,
                   reader, rstate, rnew, yielded>>

\* writer.write_record(&record)
WriteRecord ==
    /\ wstate = "open"
    /\ given < MaxRecords
    /\ \E record \in WriterRecords :
          Called("write_record", <<record>>, write_record(writer, record))

\* writer.write_batch(&batch)
WriteBatch ==
    /\ wstate = "open"
    /\ \E batch \in Batches :
          /\ given + Len(batch) <= MaxRecords
          /\ Called("write_batch", batch, write_batch(writer, batch))

\* writer.write_iter(batch)
WriteIter ==
    /\ wstate = "open"
    /\ \E batch \in Batches :
          /\ given + Len(batch) <= MaxRecords
          /\ Called("write_iter", batch, write_iter(writer, batch))

\* writer.finish()
Finish ==
    /\ wstate = "open"
    /\ Called("finish", <<>>, finish(writer))

\* let mut aux = Writer::new_headless(Vec::new()), in the programs whose
\* header is Header::new(16, 12)
AuxNew ==
    /\ astate = "none"
    /\ wstate = "open"
    /\ wheader = HeaderNew(16, 12)
    /\ aux' = new_headless(VecSink)
    /\ astate' = "open"
    /\ UNCHANGED <<parVars, fileVars, codecVars, wheader, writer, wstate, sink, last, accepted,
                   aux_held, given, source, reader, rstate, rnew, yielded>>

\* the records written to aux: its k-th record since the last ingest
AuxRecord(k) == IF k % 2 = 1 THEN Record(74565, 424080, 100) ELSE Record(1, 2, 3)

\* aux.write_record(&record)
AuxWriteRecord ==
    /\ astate = "open"
    /\ given < MaxRecords
    /\ LET record == AuxRecord(Len(aux_held) + 1)
       IN  /\ aux' = write_record(aux, record).w
           /\ aux_held' = Append(aux_held, record)
    /\ given' = given + 1
    /\ UNCHANGED <<parVars, fileVars, codecVars, wheader, writer, wstate, astate, sink, last,
                   accepted, source, reader, rstate, rnew, yielded>>

\* aux.write_batch(&batch)
AuxWriteBatch ==
    /\ astate = "open"
    /\ \E n \in 1..MaxBatch :
          LET batch == [k \in 1..n |-> AuxRecord(Len(aux_held) + k)]
          IN  /\ given + n <= MaxRecords
              /\ aux' = write_batch(aux, batch).w
              /\ aux_held' = aux_held \o batch
              /\ given' = given + n
    /\ UNCHANGED <<parVars, fileVars, codecVars, wheader, writer, wstate, astate, sink, last,
                   accepted, source, reader, rstate, rnew, yielded>>

\* writer.ingest(&mut aux)
Ingest ==
    /\ wstate = "open"
    /\ astate = "open"
    /\ LET r == ingest(writer, aux)
       IN  /\ writer' = r.w
           /\ aux' = r.other
                  /\ last' = CallOf("ingest", r.res, aux_held, writer.pos)
           /\ accepted' = IF r.res = Ok THEN accepted \o aux_held ELSE accepted
           /\ aux_held' = IF r.res = Ok THEN <<>> ELSE aux_held
    /\ UNCHANGED <<parVars, fileVars, codecVars, wheader, wstate, astate, sink, given, source, reader,
                   rstate, rnew, yielded>>

\* the writer goes out of scope; its sink (a &mut) is still there
Drop ==
    /\ wstate = "open"
    /\ wstate' = "dropped"
    /\ sink' = drop(writer).inner
    /\ UNCHANGED <<parVars, fileVars, codecVars, wheader, writer, aux, astate, last, accepted, aux_held, given,
                   source, reader, rstate, rnew, yielded>>

\* let sink = writer.into_inner()
IntoInner ==
    /\ wstate = "open"
    /\ wstate' = "taken"
    /\ sink' = into_inner(writer)
    /\ UNCHANGED <<parVars, fileVars, codecVars, wheader, writer, aux, astate, last, accepted, aux_held, given,
                   source, reader, rstate, rnew, yielded>>

\* let source = Cursor::new(sink), of a writer that was finished
Reopen ==
    /\ wstate = "taken"
    /\ last.op = "finish"
    /\ last.res = Ok
    /\ rstate = "none"
    /\ source' = Cursor(sink.data)
    /\ rstate' = "source"
    /\ UNCHANGED <<parVars, fileVars, codecVars, wheader, writer, wstate, aux, astate, sink, last,
                   accepted, aux_held, given, reader, rnew, yielded>>

\* let mut reader = Reader::new(source)?
ReaderNew ==
    /\ rstate = "source"
    /\ LET r == Reader_new(source)
       IN  /\ rnew' = r
           /\ rstate' = IF r.res = Ok THEN "open" ELSE "failed"
           /\ reader' = IF r.res = Ok THEN r.w ELSE Absent
    /\ UNCHANGED <<parVars, fileVars, codecVars, wheader, writer, wstate, aux, astate, sink, last,
                   accepted, aux_held, given, source, yielded>>

\* reader.next()
ReadNext ==
    /\ rstate = "open"
    /\ Len(yielded) < MaxItems
    /\ LET it == next(reader)
       IN  /\ reader' = it.w
           /\ yielded' = Append(yielded, it.item)
    /\ UNCHANGED <<parVars, fileVars, codecVars, wheader, writer, wstate, aux, astate, sink, last,
                   accepted, aux_held, given, source, rstate, rnew>>

\* the programs that write with one writer, let go of it and read the sink back
WriterNext ==
    \/ New \/ WriteRecord \/ WriteBatch \/ WriteIter \/ Finish
    \/ Drop \/ IntoInner \/ Reopen \/ ReaderNew \/ ReadNext

SpecWriter == WriterInit /\ [][WriterNext]_vars

\* the programs that write with a writer and a headless one that they ingest
IngestNext ==
    \/ New \/ WriteRecord \/ WriteBatch \/ WriteIter \/ Finish
    \/ AuxNew \/ AuxWriteRecord \/ AuxWriteBatch \/ Ingest

SpecIngest == WriterInit /\ [][IngestNext]_vars

(***************************************************************************)
(* The readers of a whole file: MmapReader::new (src/src/io/mmap.rs) and   *)
(* load_to_vec (src/src/io/reader.rs).  The file is its bytes.             *)
(***************************************************************************)
InvalidMapSize == [tag |-> "Err", kind |-> "InvalidMapSize", by |-> 0, idx |-> 0, max |-> 0]

\* the call did not return: an index out of range, or bytemuck::from_bytes
\* on bytes that are not aligned for the target type
Panic == [tag |-> "Panic", kind |-> "Panic", by |-> 0, idx |-> 0, max |-> 0]

\* what a reader of a whole file returns: the result and, when it is Ok, the
\* header and the records
FileOutcome(res, header, recs) == [res |-> res, header |-> header, records |-> recs]

\* Mmap::map(&file) on a file of these bytes: the results the memmap2 crate
\* can give.  A file with bytes is mapped; for an empty file the crate either
\* refuses the zero-length map with an I/O error or hands back an empty map,
\* depending on its version.
Mmap_map(bytes) == IF bytes = <<>> THEN {Ok, IoError} ELSE {Ok}

\* faulty variant of MmapReader_new: the size is checked before the header
MmapReader_new_size_first(bytes) ==
    LET header == HeaderFromBytes(SubSeq(bytes, 1, HEADER_SIZE))
        record_buffer == SubSeq(bytes, HEADER_SIZE + 1, Len(bytes))
    IN  IF Len(bytes) < HEADER_SIZE THEN FileOutcome(Panic, Absent, <<>>)
        ELSE IF Len(record_buffer) % RECORD_SIZE # 0
        THEN FileOutcome(InvalidMapSize, Absent, <<>>)
        ELSE IF Validate(header) # Ok THEN FileOutcome(Validate(header), Absent, <<>>)
        ELSE FileOutcome(Ok, header, DecodeRecords(record_buffer))

\* MmapReader::new on a file of these bytes: &map[0..HEADER_SIZE] is out of
\* range for a shorter file; the records of the outcome are the len records
\* of the map
MmapReader_new(bytes) ==
    LET header == HeaderFromBytes(SubSeq(bytes, 1, HEADER_SIZE))
        record_buffer == SubSeq(bytes, HEADER_SIZE + 1, Len(bytes))
    IN  IF Len(bytes) < HEADER_SIZE THEN FileOutcome(Panic, Absent, <<>>)
        ELSE IF Validate(header) # Ok THEN FileOutcome(Validate(header), Absent, <<>>)
        ELSE IF Len(record_buffer) % RECORD_SIZE # 0
        THEN FileOutcome(InvalidMapSize, Absent, <<>>)
        ELSE FileOutcome(Ok, header, DecodeRecords(record_buffer))

\* load_to_vec on a file of these bytes.  Header::from_bytes is
\* bytemuck::from_bytes on the local [u8; HEADER_SIZE], which panics when the
\* array does not lie at an address aligned for Header: `aligned` tells
\* whether the build placed it so.
load_to_vec(bytes, aligned) ==
    LET header == HeaderFromBytes(SubSeq(bytes, 1, HEADER_SIZE))
        data_size == Len(bytes) - HEADER_SIZE
    IN  IF Len(bytes) < HEADER_SIZE THEN FileOutcome(IoError, Absent, <<>>)
        ELSE IF ~aligned THEN FileOutcome(Panic, Absent, <<>>)
        ELSE IF Validate(header) # Ok THEN FileOutcome(Validate(header), Absent, <<>>)
        ELSE IF data_size % RECORD_SIZE # 0 THEN FileOutcome(InvalidMapSize, Absent, <<>>)
        ELSE FileOutcome(Ok, header,
                         DecodeRecords(SubSeq(bytes, HEADER_SIZE + 1, Len(bytes))))

\* the variables of process_parallel other than the records of the reader
parRest == <<num_threads_arg, num_cpus, pc, num_threads, i, workers, log,
             global_count, global_sum, ret, late_calls, first_failed>>

\* the program has no streaming Reader, or is done with it
ReaderAtRest ==
    \/ rstate = "none"
    \/ rstate = "failed"
    \/ rstate = "open" /\ Len(yielded) = MaxItems

\* MmapReader::new(path) on the file
MmapNew ==
    /\ mstate = "none"
    /\ lstate = "none"
    /\ ReaderAtRest
    /\ \E mapped \in Mmap_map(file) :
          LET m == IF mapped # Ok THEN FileOutcome(mapped, Absent, <<>>)
                   ELSE MmapReader_new(file)
          IN  /\ mres' = m.res
              /\ mstate' = IF m.res = Ok THEN "open" ELSE "failed"
              /\ mheader' = m.header
              /\ records' = m.records
    /\ UNCHANGED <<parRest, ioVars, codecVars, file, lstate, lout, sliced>>

\* reader.slice(start, end) on the MmapReader
Slice ==
    /\ mstate = "open"
    /\ \E start \in 0..(ReaderLen + 1), end \in 0..(ReaderLen + 1) :
        sliced' = [start |-> start, end |-> end, res |-> SliceCheck(start, end),
                   records |-> IF SliceCheck(start, end) = Ok
                               THEN SliceRecords(start, end) ELSE <<>>]
    /\ UNCHANGED <<parVars, ioVars, codecVars, file, mstate, mres, mheader, lstate, lout>>

\* load_to_vec(path) on the file
LoadToVec ==
    /\ lstate = "none"
    /\ mstate = "none"
    /\ ReaderAtRest
    /\ \E aligned \in BOOLEAN : lout' = load_to_vec(file, aligned)
    /\ lstate' = "done"
    /\ UNCHANGED <<parVars, ioVars, codecVars, file, mstate, mres, mheader, sliced>>

(***************************************************************************)
(* A program reading a source with a Reader: the source holds a stream, or *)
(* a stream cut short, delivers it in reads of at most `chunk` bytes, and  *)
(* one of its reads may fail.                                              *)
(***************************************************************************)
\* the most records of a stream handed to a Reader
MaxStream == 3

\* the most bytes missing at the end of a stream cut short
MaxCut == RECORD_SIZE - 1

\* the bytes of a file with the header h and the records rs
Stream(h, rs) == HeaderBytes(h) \o RecordsBytes(rs)

\* the sequence b without its last k elements
CutShort(b, k) == SubSeq(b, 1, Len(b) - k)

\* the record sequences of the streams
StreamRecords == UNION {[1..n -> WriterRecords] : n \in 0..MaxStream}

\* the byte strings of the sources: the streams of the valid headers, whole
\* or cut short in the last record (or in the header), the streams of the
\* invalid headers, and the sources shorter than a header
SourceData ==
    {CutShort(Stream(h, rs), k) : h \in ValidHeaders, rs \in StreamRecords, k \in 0..MaxCut}
        \cup {Stream(h, rs) : h \in InvalidHeaders, rs \in {<<>>, <<Record(1, 2, 3)>>}}
        \cup {CutShort(HeaderBytes(HeaderNew(16, 12)), k) : k \in 1..HEADER_SIZE}

\* the most bytes the sources deliver in one read: a part of a record, a
\* record and a part of the next (as many as the header), all there is
Chunks == {5, HEADER_SIZE, HEADER_SIZE + MaxStream * RECORD_SIZE}

\* the sources handed to Reader::new
Sources == {Source(d, c, b) : d \in SourceData, c \in Chunks, b \in -1..MaxBudget}

ReaderInit ==
    /\ ParIdle
    /\ wheader = Absent
    /\ writer = Absent
    /\ wstate = "none"
    /\ aux = Absent
    /\ astate = "none"
    /\ sink = Absent
    /\ last = Absent
    /\ accepted = <<>>
    /\ aux_held = <<>>
    /\ given = 0
    /\ source \in Sources
    /\ reader = Absent
    /\ rstate = "source"
    /\ rnew = Absent
    /\ yielded = <<>>
    /\ file = source.data
    /\ mstate = "none"
    /\ mres = Absent
    /\ mheader = Absent
    /\ lstate = "none"
    /\ lout = Absent
    /\ sliced = NoSlice
    /\ CodecIdle

ReaderNext == ReaderNew \/ ReadNext \/ MmapNew \/ LoadToVec

SpecReader == ReaderInit /\ [][ReaderNext]_vars

(***************************************************************************)
(* A program with a file: it maps it with MmapReader::new and takes slices *)
(* of the map, or loads it with load_to_vec.                               *)
(***************************************************************************)
\* the byte strings of the files: those of the sources, and files with an
\* invalid header and an incomplete record
FileData ==
    SourceData
        \cup {CutShort(Stream(h, <<Record(1, 2, 3)>>), 5) : h \in InvalidHeaders}

FileInit ==
    /\ ParIdle
    /\ IoIdle
    /\ file \in FileData
    /\ mstate = "none"
    /\ mres = Absent
    /\ mheader = Absent
    /\ lstate = "none"
    /\ lout = Absent
    /\ sliced = NoSlice
    /\ CodecIdle

FileNext == MmapNew \/ Slice \/ LoadToVec

SpecFile == FileInit /\ [][FileNext]_vars

(***************************************************************************)
(* A program using the codec: it validates a header, encodes and decodes a *)
(* header or a record, or compares records.  The fields of the headers and *)
(* records above are small integers; to reach every bit of a field, a wide *)
(* header or record holds each integer field as 16-bit limbs, the least    *)
(* significant first (two for a u32, four for a u64).                      *)
(***************************************************************************)
\* the number of values of a limb
LIMB == 65536

\* the n limbs of the unsigned integer v
RECURSIVE Widen(_, _)
Widen(v, n) == IF n = 0 THEN <<>> ELSE <<v % LIMB>> \o Widen(v \div LIMB, n - 1)

\* the bytes in memory of an integer held as limbs, least significant first
RECURSIVE WideBytes(_)
WideBytes(v) == IF v = <<>> THEN <<>> ELSE LeBytes(Head(v), 2) \o WideBytes(Tail(v))

\* the limbs of the integer whose little-endian bytes are b
WideFromBytes(b) == [k \in 1..(Len(b) \div 2) |-> FromLeBytes(SubSeq(b, 2 * k - 1, 2 * k))]

\* Header::as_bytes of a wide header
WideHeaderBytes(h) ==
    WideBytes(h.magic) \o WideBytes(h.version) \o WideBytes(h.bc_len)
        \o WideBytes(h.umi_len) \o WideBytes(h.flags) \o h.reserved

\* faulty variant of WideHeaderFromBytes: only bit 0 of the flags is kept and
\* the reserved bytes are cleared
WideHeaderFromBytesKnownBits(b) ==
    Header(WideFromBytes(SubSeq(b, 1, 4)), WideFromBytes(SubSeq(b, 5, 8)),
           WideFromBytes(SubSeq(b, 9, 12)), WideFromBytes(SubSeq(b, 13, 16)),
           <<b[17] % 2, 0, 0, 0>>, Zeros(8))

\* Header::from_bytes to a wide header
WideHeaderFromBytes(b) ==
    Header(WideFromBytes(SubSeq(b, 1, 4)), WideFromBytes(SubSeq(b, 5, 8)),
           WideFromBytes(SubSeq(b, 9, 12)), WideFromBytes(SubSeq(b, 13, 16)),
           WideFromBytes(SubSeq(b, 17, 24)), SubSeq(b, 25, 32))

\* Record::as_bytes of a wide record
WideRecordBytes(r) == WideBytes(r.barcode) \o WideBytes(r.umi) \o WideBytes(r.index)

\* Record::from_bytes to a wide record
WideRecordFromBytes(b) ==
    Record(WideFromBytes(SubSeq(b, 1, 8)), WideFromBytes(SubSeq(b, 9, 16)),
           WideFromBytes(SubSeq(b, 17, 24)))

\* the header h with its integer fields as limbs
WidenHeader(h) ==
    Header(Widen(h.magic, 2), Widen(h.version, 2), Widen(h.bc_len, 2),
           Widen(h.umi_len, 2), Widen(h.flags, 4), h.reserved)

\* the record r with its fields as limbs
WidenRecord(r) == Record(Widen(r.barcode, 4), Widen(r.umi, 4), Widen(r.index, 4))

\* the orderings of core::cmp
Less == "Less"
Equal == "Equal"
Greater == "Greater"

\* u64::cmp
Cmp(x, y) == IF x < y THEN Less ELSE IF x > y THEN Greater ELSE Equal

\* faulty variant of RecordCmp: the umi is compared before the barcode
RecordCmpUmiFirst(a, b) ==
    IF Cmp(a.umi, b.umi) # Equal THEN Cmp(a.umi, b.umi)
    ELSE IF Cmp(a.barcode, b.barcode) # Equal THEN Cmp(a.barcode, b.barcode)
    ELSE Cmp(a.index, b.index)

\* Ord::cmp as derived for Record: the fields in the order of their
\* declaration, the first that differs decides
RecordCmp(a, b) ==
    IF Cmp(a.barcode, b.barcode) # Equal THEN Cmp(a.barcode, b.barcode)
    ELSE IF Cmp(a.umi, b.umi) # Equal THEN Cmp(a.umi, b.umi)
    ELSE Cmp(a.index, b.index)

\* the headers handed to validate: every combination of a right or wrong
\* magic and version with lengths at, inside and outside the boundaries
CodecLengths == {0, 1, 16, 32, 33}
CodecHeaders ==
    {Header(m, v, bc, umi, f, Zeros(8)) :
        m \in {MAGIC, 305419896}, v \in {VERSION, 999},
        bc \in CodecLengths, umi \in CodecLengths, f \in {0, 1}}

\* the limbs of a u64 with the bit n alone
FlagBit(n) == [k \in 1..4 |-> IF k = (n \div 16) + 1 THEN 2 ^ (n % 16) ELSE 0]

\* the limbs of an integer of n limbs with every bit set
AllOnes(n) == [k \in 1..n |-> LIMB - 1]

\* the wide headers: a valid or an all-ones head, every single flag bit, no
\* flag bit and all of them, reserved bytes empty, in use and all-ones
WideHeaders ==
    {Header(x[1], x[2], x[3], x[4], f, r) :
        x \in {<<Widen(MAGIC, 2), Widen(VERSION, 2), Widen(16, 2), Widen(12, 2)>>,
               <<AllOnes(2), AllOnes(2), AllOnes(2), AllOnes(2)>>},
        f \in {FlagBit(n) : n \in 0..63} \cup {Widen(0, 4), AllOnes(4)},
        r \in {Zeros(8), <<1, 2, 3, 4, 5, 6, 7, 8>>, [k \in 1..8 |-> 255]}}

\* the values of a field of the wide records: zero, the largest, the top bit
\* alone, a different value in every byte
WideFields == {Widen(0, 4), AllOnes(4), FlagBit(63), <<513, 1027, 1541, 2055>>}
WideRecords == {Record(b, u, x) : b \in WideFields, u \in WideFields, x \in WideFields}

\* the records handed to the comparison
OrderFields == {0, 1, 2}
OrderRecords == {Record(b, u, x) : b \in OrderFields, u \in OrderFields, x \in OrderFields}

CodecInit ==
    /\ ParIdle
    /\ IoIdle
    /\ FileIdle
    /\ cout = <<>>
    /\ \/ cstate = "header" /\ cin \in CodecHeaders \cup Headers
       \/ cstate = "wide_header" /\ cin \in WideHeaders
       \/ cstate = "record" /\ cin \in WriterRecords \cup OrderRecords
       \/ cstate = "wide_record" /\ cin \in WideRecords
       \/ cstate = "records" /\ cin \in OrderRecords \X OrderRecords \X OrderRecords

\* header.validate()
ValidateCall ==
    /\ cstate = "header"
    /\ cout' = Validate(cin)
    /\ cstate' = "validated"
    /\ UNCHANGED <<parVars, ioVars, fileVars, cin>>

\* Header::from_bytes(header.as_bytes())
HeaderCodec ==
    /\ cstate = "header"
    /\ cout' = [bytes |-> HeaderBytes(cin), back |-> HeaderFromBytes(HeaderBytes(cin))]
    /\ cstate' = "header_decoded"
    /\ UNCHANGED <<parVars, ioVars, fileVars, cin>>

\* the same on a wide header
WideHeaderCodec ==
    /\ cstate = "wide_header"
    /\ cout' = [bytes |-> WideHeaderBytes(cin),
                back |-> WideHeaderFromBytes(WideHeaderBytes(cin))]
    /\ cstate' = "wide_header_decoded"
    /\ UNCHANGED <<parVars, ioVars, fileVars, cin>>

\* Record::from_bytes(record.as_bytes())
RecordCodec ==
    /\ cstate = "record"
    /\ cout' = [bytes |-> RecordBytes(cin), back |-> RecordFromBytes(RecordBytes(cin))]
    /\ cstate' = "record_decoded"
    /\ UNCHANGED <<parVars, ioVars, fileVars, cin>>

\* the same on a wide record
WideRecordCodec ==
    /\ cstate = "wide_record"
    /\ cout' = [bytes |-> WideRecordBytes(cin),
                back |-> WideRecordFromBytes(WideRecordBytes(cin))]
    /\ cstate' = "wide_record_decoded"
    /\ UNCHANGED <<parVars, ioVars, fileVars, cin>>

\* a.cmp(&b), b.cmp(&a), b.cmp(&c) and a.cmp(&c) for the records a, b, c
Compare ==
    /\ cstate = "records"
    /\ cout' = [ab |-> RecordCmp(cin[1], cin[2]), ba |-> RecordCmp(cin[2], cin[1]),
                bc |-> RecordCmp(cin[2], cin[3]), ac |-> RecordCmp(cin[1], cin[3])]
    /\ cstate' = "compared"
    /\ UNCHANGED <<parVars, ioVars, fileVars, cin>>

CodecNext ==
    \/ ValidateCall \/ HeaderCodec \/ WideHeaderCodec
    \/ RecordCodec \/ WideRecordCodec \/ Compare

SpecCodec == CodecInit /\ [][CodecNext]_vars

(***************************************************************************)
(* Properties of process_parallel                                          *)
(***************************************************************************)
Returned == pc = "returned"
ReturnedOk == pc = "returned" /\ ret = Ok
AllSpawned == pc \in {"join", "returned"}

\* the process_record calls of all processor clones on file index idx
CallsAt(idx) ==
    {c \in UNION {{<<t, n>> : n \in DOMAIN log[t]} : t \in Spawned} :
        /\ log[c[1]][c[2]].op = "process_record"
        /\ log[c[1]][c[2]].idx = idx}

\* the process_record calls of all processor clones
RecordCalls ==
    {c \in UNION {{<<t, n>> : n \in DOMAIN log[t]} : t \in Spawned} :
        log[c[1]][c[2]].op = "process_record"}

\* C1: on every return of process_parallel, Ok or Err, every worker thread it
\* spawned has terminated, and no process_record or on_batch_complete call of
\* a worker happens after the return.
C1_AllWorkersTerminatedOnReturn ==
    Returned => /\ \A t \in Spawned : workers[t].state = "done"
                /\ late_calls = 0

\* C2: when process_parallel returns Ok, every file index in [0, len) was
\* handed to process_record exactly once over all clones, with the record
\* stored at that index, and nothing else was handed to process_record.
C2_EachRecordExactlyOnce ==
    ReturnedOk =>
        /\ \A idx \in 0..ReaderLen - 1 :
              /\ Cardinality(CallsAt(idx)) = 1
              /\ \A c \in CallsAt(idx) : log[c[1]][c[2]].rec = records[idx + 1]
        /\ Cardinality(RecordCalls) = ReaderLen

C2_Witness ==
    /\ ReturnedOk
    /\ ReaderLen >= 3
    /\ num_threads = 2
    /\ ReaderLen % num_threads # 0

\* the total of a single-threaded sequential scan of the file
RECURSIVE SequentialSum(_)
SequentialSum(recs) ==
    IF recs = <<>> THEN 0 ELSE RecordSum(Head(recs)) + SequentialSum(Tail(recs))

\* C3: when process_parallel returns Ok, the shared totals of the accumulating
\* processor equal those of a sequential scan of the file, and no clone holds
\* anything unflushed, whatever the thread count and the record count.
C3_ParallelEqualsSequential ==
    ReturnedOk =>
        /\ global_sum = SequentialSum(records)
        /\ global_count = ReaderLen
        /\ \A t \in Spawned : /\ workers[t].thread_processor.local_sum = 0
                              /\ workers[t].thread_processor.local_count = 0

C3_Witness ==
    /\ ReturnedOk
    /\ ReaderLen >= 2
    /\ num_threads > ReaderLen
    /\ global_sum > 0

\* C4: the ranges of the T workers are [t*(len/T), (t+1)*(len/T)) for t < T-1
\* and [(T-1)*(len/T), len) for the last one: contiguous, disjoint, covering
\* [0, len), the last range holding the len mod T remainder records.
C4_RangesPartition ==
    AllSpawned =>
        LET T == Cardinality(Spawned)
            q == ReaderLen \div T
        IN /\ Spawned = 0..T - 1
           /\ \A t \in 0..T - 2 : /\ workers[t].start = t * q
                                  /\ workers[t].end = (t + 1) * q
                                  /\ workers[t].end = workers[t + 1].start
           /\ workers[0].start = 0
           /\ workers[T - 1].start = (T - 1) * q
           /\ workers[T - 1].end = ReaderLen
           /\ workers[T - 1].end - workers[T - 1].start = q + (ReaderLen % T)

C4_Witness ==
    /\ AllSpawned
    /\ Cardinality(Spawned) = 3
    /\ ReaderLen = 5
    /\ workers[0].end - workers[0].start = 1
    /\ workers[2].end - workers[2].start = 3

C6_AutoWorkersCappedAtLen ==
    (AllSpawned /\ num_threads_arg = 0) =>
        Cardinality(Spawned) = Min(num_cpus, ReaderLen)

\* C6 amended: a call with num_threads == 0 runs as many workers as the host
\* has hardware threads, whatever len is (no cap at len).
C6_AutoWorkersAreCpus ==
    (AllSpawned /\ num_threads_arg = 0) =>
        /\ Cardinality(Spawned) = num_cpus
        /\ Spawned = 0..num_cpus - 1

C6_Witness ==
    /\ Returned
    /\ num_threads_arg = 0
    /\ ReaderLen < num_cpus
    /\ Cardinality(Spawned) = num_cpus

\* C7: process_parallel returns Ok iff every worker finished with Ok; an error
\* it returns is the result of the failing worker with the lowest thread
\* index, whichever worker failed first in time.
C7_FirstErrorInIndexOrder ==
    Returned =>
        /\ ret.tag \in {"Ok", "Err"}
        /\ (ret = Ok) <=> (\A t \in 0..num_threads - 1 :
                              /\ t \in Spawned
                              /\ workers[t].state = "done"
                              /\ workers[t].result = Ok)
        /\ ret.tag = "Err" =>
              \E t \in Spawned :
                  /\ workers[t].state = "done"
                  /\ workers[t].result = ret
                  /\ ret.kind = "Process" => ret.by = t
                  /\ \A u \in 0..t - 1 : /\ workers[u].state = "done"
                                        /\ workers[u].result = Ok

C7_Witness ==
    /\ Returned
    /\ ret.tag = "Err"
    /\ ret.kind = "Process"
    /\ first_failed > ret.by

\* C8: process_parallel calls set_tid(t) exactly once on worker t's processor
\* clone, before that worker's first process_record call.
C8_SetTidBeforeFirstRecord ==
    \A t \in Spawned :
        Len(log[t]) > 0 => /\ workers[t].thread_processor.set_tid_calls = 1
                           /\ workers[t].thread_processor.tid = t

\* the process_record calls of worker t, in the order it made them
RecordCallsOf(t) == SelectSeq(log[t], LAMBDA e : e.op = "process_record")

\* C9: a worker's process_record calls are on records of its own range, in
\* strictly ascending file index order (so each index at most once).
C9_AscendingWithinWorker ==
    \A t \in Spawned :
        LET s == RecordCallsOf(t)
        IN \A n \in 1..Len(s) :
              /\ s[n].idx >= workers[t].start
              /\ s[n].idx < workers[t].end
              /\ s[n].rec = records[s[n].idx + 1]
              /\ n > 1 => s[n - 1].idx < s[n].idx

C9_Witness ==
    \E t, u \in Spawned :
        /\ t # u
        /\ Len(RecordCallsOf(t)) >= 3
        /\ Len(RecordCallsOf(u)) >= 1

CeilDiv(n, d) == (n + d - 1) \div d

\* C10: a worker that completes a range of n records with Ok has called
\* on_batch_complete exactly ceil(n / BATCH_SIZE) times: after every
\* BATCH_SIZE-th process_record call and after the last one of a final partial
\* chunk, never in between, and never when n = 0.
C10_BatchCompletePerChunk ==
    \A t \in Spawned :
        (workers[t].state = "done" /\ workers[t].result = Ok) =>
            LET n == workers[t].end - workers[t].start
                L == log[t]
            IN /\ Len(L) = n + CeilDiv(n, BATCH_SIZE)
               /\ Cardinality({p \in DOMAIN L : L[p].op = "on_batch_complete"})
                     = CeilDiv(n, BATCH_SIZE)
               /\ \A p \in DOMAIN L :
                     /\ (L[p].op = "on_batch_complete")
                            <=> (p % (BATCH_SIZE + 1) = 0 \/ p = Len(L))
                     /\ L[p].op = "process_record" =>
                            L[p].idx = workers[t].start + (p - 1)
                                           - (p \div (BATCH_SIZE + 1))

C10_Witness ==
    \E t \in Spawned :
        /\ workers[t].state = "done"
        /\ workers[t].result = Ok
        /\ workers[t].end - workers[t].start > BATCH_SIZE
        /\ (workers[t].end - workers[t].start) % BATCH_SIZE # 0

\* the last call worker t made on its processor clone
LastCall(t) == log[t][Len(log[t])]

\* C11: a worker whose process_record or on_batch_complete call returned an
\* error has terminated, that call is the last one it made (so no
\* on_batch_complete follows a failed process_record), and its result is
\* exactly that error.
C11_ErrorEndsWorker ==
    \A t \in Spawned :
        workers[t].result.tag = "Err" =>
            /\ workers[t].state = "done"
            /\ Len(log[t]) > 0
            /\ \/ /\ LastCall(t).op = "process_record"
                  /\ workers[t].result = ProcessError(t, LastCall(t).idx)
                  /\ LastCall(t).idx = workers[t].batch_start + workers[t].k
               \/ /\ LastCall(t).op = "on_batch_complete"
                  /\ workers[t].result = ProcessError(t, workers[t].batch_end)
                  /\ workers[t].k = Len(workers[t].slice)

C11_Witness ==
    \E t \in Spawned :
        /\ workers[t].result.tag = "Err"
        /\ Len(log[t]) >= 2
        /\ LastCall(t).op = "process_record"
        /\ \A n \in DOMAIN log[t] : log[t][n].op = "process_record"
        /\ pc = "returned"

\* worker t has terminated, and with Ok only after a process_record call on
\* every record of its range
Finished(t) ==
    /\ t \in Spawned
    /\ workers[t].state = "done"
    /\ workers[t].result = Ok =>
          {log[t][n].idx : n \in {m \in DOMAIN log[t] : log[t][m].op = "process_record"}}
              = workers[t].start..workers[t].end - 1

ReadBackOfValid ==
    /\ rstate \in {"open", "failed"}
    /\ Validate(wheader) = Ok
    /\ ~sink.faulted

\* C13: a stream written with a valid header h and the records s, then
\* finished, reads back as the header h, the records of s in order as Ok
\* items, and then None.
C13_StreamRoundTrip ==
    ReadBackOfValid =>
        /\ rstate = "open"
        /\ reader.header = wheader
        /\ \A k \in 1..Len(yielded) :
              yielded[k] = IF k <= Len(accepted) THEN SomeOk(accepted[k]) ELSE None

\* a stream of more records than one buffer holds, not all the same, written
\* after a header with the sorted flag, has been read back to its end
C13_Witness ==
    /\ ReadBackOfValid
    /\ rstate = "open"
    /\ wheader.flags % 2 = 1
    /\ Len(accepted) > BufferRecords
    /\ accepted[1] # accepted[2]
    /\ Len(yielded) = Len(accepted) + 1


\* the records accepted by the step
StepBatch == SubSeq(accepted', Len(accepted) + 1, Len(accepted'))

\* the bytes of the sink after a finish of the writer w
SinkAfterFinish(w) == finish(w).w.inner.data

\* C14: from any writer state over a sink that does not fail, write_batch
\* leaves the records_written and, after finish, the sink bytes that
\* write_record on each record in order leaves; a batch larger than the
\* buffer goes to the sink after the bytes that were pending in the buffer.
C14_BatchEqualsRecordByRecord ==
    [][(wstate = "open" /\ writer.inner.budget = -1 /\ WriteBatch) =>
          LET one_by_one == write_iter(writer, StepBatch)
          IN  /\ last'.res = Ok
              /\ one_by_one.res = Ok
              /\ writer'.records_written = one_by_one.w.records_written
              /\ SinkAfterFinish(writer') = SinkAfterFinish(one_by_one.w)
              /\ Len(StepBatch) > BufferRecords =>
                    writer'.inner.data = writer.inner.data
                                            \o SubSeq(writer.buffer, 1, writer.pos)
                                            \o RecordsBytes(StepBatch)]_vars

\* a batch larger than the buffer was written while bytes were pending
C14_Witness ==
    /\ wstate = "open"
    /\ last.op = "write_batch"
    /\ last.res = Ok
    /\ last.n > BufferRecords
    /\ last.pos > 0
    /\ writer.pos = 0


\* the sink of a single headed writer over a Vec that wrote the records rs one
\* by one and was finished
DirectlyWritten(h, rs) == SinkAfterFinish(write_iter(Writer_new(VecSink, h).w, rs).w)

\* C15: when main.ingest(aux) succeeds, for a headed main writer with M
\* records and a headless aux writer with K records, main.records_written is
\* M + K and aux's sink is empty; after main.finish() main's sink is the sink
\* of one headed writer that wrote the M records and then the K records (the
\* M records being those of the calls on a sink that never failed).
C15_IngestAppends ==
    [][(Ingest /\ last'.res = Ok) =>
          /\ writer'.records_written = writer.records_written + Len(aux_held)
          /\ aux'.inner.data = <<>>
          /\ (writer'.inner.budget = -1 /\ ~writer'.inner.faulted) =>
                /\ writer'.records_written = Len(accepted) + Len(aux_held)
                /\ SinkAfterFinish(writer') =
                      DirectlyWritten(wheader, accepted \o aux_held)]_vars

\* an ingest of K >= 2 records into a writer with M >= 1 records has succeeded
C15_Witness ==
    /\ wstate = "open"
    /\ last.op = "ingest"
    /\ last.res = Ok
    /\ last.n >= 2
    /\ Len(accepted) > last.n
    /\ writer.inner.budget = -1
    /\ ~writer.inner.faulted
    /\ writer.records_written = Len(accepted)
    /\ aux.inner.data = <<>>


\* C16: Writer::new with a header that fails validation returns an error and
\* yields no writer.
C16_NewRejectsInvalidHeader ==
    (wstate # "none" /\ Validate(wheader) # Ok) =>
        /\ wstate = "failed"
        /\ last.res.tag = "Err"


\* the sequence a can be had from b by leaving elements out
RECURSIVE IsSubseq(_, _)
IsSubseq(a, b) ==
    IF a = <<>> THEN TRUE
    ELSE IF b = <<>> THEN FALSE
    ELSE IF Head(a) = Head(b) THEN IsSubseq(Tail(a), Tail(b))
    ELSE IsSubseq(a, Tail(b))

\* the bytes of the sink after the header
AfterHeader(data) == SubSeq(data, HEADER_SIZE + 1, Len(data))

\* the last call on the writer was a finish that returned Ok
JustFinished == wstate = "open" /\ last.op = "finish" /\ last.res = Ok

\* C17: when finish returns Ok the cursor is 0, the sink has received the
\* pending bytes of the buffer and was flushed after that, so that it holds
\* the header and every record accepted so far (exactly those, in order, when
\* no call of the sink ever failed); a second finish, or the drop of the
\* finished writer, writes no further byte.
C17_FinishFlushesAll ==
    [][/\ (Finish /\ last'.res = Ok) =>
             /\ writer'.pos = 0
             /\ writer'.inner.data =
                   writer.inner.data \o SubSeq(writer.buffer, 1, writer.pos)
             /\ writer'.inner.flushed = Len(writer'.inner.data)
             /\ SubSeq(writer'.inner.data, 1, HEADER_SIZE) = HeaderBytes(wheader)
             /\ IsSubseq(accepted, DecodeRecords(AfterHeader(writer'.inner.data)))
             /\ ~writer'.inner.faulted =>
                   writer'.inner.data = HeaderBytes(wheader) \o RecordsBytes(accepted)
       /\ (Finish /\ JustFinished) => writer'.inner.data = writer.inner.data
       /\ (Drop /\ JustFinished) => sink'.data = writer.inner.data]_vars

\* a finish has written pending bytes of more than one call to the sink
C17_Witness ==
    /\ JustFinished
    /\ last.pos > RECORD_SIZE
    /\ writer.pos = 0
    /\ writer.inner.flushed = HEADER_SIZE + RECORD_SIZE * Len(accepted)


\* C18: the drop of a writer with pending bytes writes them to a working sink
\* and flushes it; over a failing sink the drop completes all the same, and
\* the sink holds what the calls that succeeded before the failure wrote.
C18_DropFinishesBestEffort ==
    [][Drop =>
          /\ wstate' = "dropped"
          /\ writer.inner.budget = -1 =>
                /\ sink'.data = writer.inner.data \o SubSeq(writer.buffer, 1, writer.pos)
                /\ sink'.flushed = Len(sink'.data)
          /\ writer.inner.budget = 0 =>
                /\ sink'.data = writer.inner.data
                /\ sink'.flushed = writer.inner.flushed
                /\ sink'.faulted
          /\ (writer.inner.budget = 1 /\ writer.pos > 0) =>
                /\ sink'.data = writer.inner.data \o SubSeq(writer.buffer, 1, writer.pos)
                /\ sink'.flushed = writer.inner.flushed
                /\ sink'.faulted]_vars

\* a writer that was not finished, with pending records, was dropped over a
\* working sink
C18_Witness ==
    /\ wstate = "dropped"
    /\ last.op = "write_record"
    /\ writer.pos > 0
    /\ writer.inner.budget = -1
    /\ ~writer.inner.faulted
    /\ Len(writer.inner.data) = HEADER_SIZE
    /\ sink.data = HeaderBytes(wheader) \o RecordsBytes(accepted)
    /\ sink.flushed = Len(sink.data)


\* C19: records_written never decreases; while every call has succeeded it
\* is the number of records handed to write_record, write_batch and
\* write_iter plus the records held by the writers ingested; a call with an
\* empty batch leaves it unchanged.
C19_RecordsWrittenCounts ==
    [][(wstate = "open" /\ wstate' = "open") =>
          /\ writer'.records_written >= writer.records_written
          /\ ~writer'.inner.faulted =>
                /\ writer'.records_written = Len(accepted')
                /\ writer'.records_written = writer.records_written + Len(StepBatch)
          /\ ((WriteBatch \/ WriteIter) /\ last'.n = 0) =>
                writer'.records_written = writer.records_written]_vars

\* the counter after write calls and an ingest that all succeeded, the last
\* one a write_iter
C19_Witness ==
    /\ wstate = "open"
    /\ ~writer.inner.faulted
    /\ astate = "open"
    /\ aux_held = <<>>
    /\ aux.records_written > 0
    /\ last.op = "write_iter"
    /\ last.res = Ok
    /\ last.n > 0
    /\ writer.records_written = MaxRecords


\* Reader::new has returned
ReaderNewReturned == rstate \in {"open", "failed"}

\* the source cannot deliver n bytes before one of its reads fails
FailsWithin(src, n) == src.budget # -1 /\ src.budget * src.chunk < n

\* C20: Reader::new fails with an I/O error when the source holds fewer than
\* 32 bytes (or fails before it has delivered them), and with the validation
\* error of the decoded header when that is invalid, having consumed the
\* first 32 bytes; on success it has consumed exactly the first 32 bytes,
\* bytes_read is 32 and no record byte is in the buffer.
C20_ReaderNewReadsHeader ==
    ReaderNewReturned =>
        LET h == HeaderFromBytes(SubSeq(source.data, 1, HEADER_SIZE))
        IN  IF Len(source.data) < HEADER_SIZE \/ FailsWithin(source, HEADER_SIZE)
            THEN rstate = "failed" /\ rnew.res = IoError
            ELSE /\ rnew.w.inner.off = HEADER_SIZE
                 /\ IF Validate(h) # Ok
                    THEN rstate = "failed" /\ rnew.res = Validate(h)
                    ELSE /\ rstate = "open"
                         /\ rnew.res = Ok
                         /\ rnew.w.header = h
                         /\ rnew.w.bytes_read = HEADER_SIZE
                         /\ rnew.w.pos = 0 /\ rnew.w.cap = 0
                         /\ rnew.w.buffer = <<>>
                         /\ ~rnew.w.eof

\* Reader::new has rejected the header of a source that holds a record after
\* it and delivered the header in several reads
C20_Witness ==
    /\ rstate = "failed"
    /\ rnew.res = InvalidUmiLength(33)
    /\ Len(source.data) = HEADER_SIZE + RECORD_SIZE
    /\ source.chunk < HEADER_SIZE
    /\ rnew.w.inner.off = HEADER_SIZE

(***************************************************************************)
(* Properties of the readers on a stream whose last record is incomplete   *)
(***************************************************************************)
\* the bytes d are a valid header, whole records and a part of a record
Truncated(d) ==
    /\ Len(d) > HEADER_SIZE
    /\ (Len(d) - HEADER_SIZE) % RECORD_SIZE # 0
    /\ Validate(HeaderFromBytes(SubSeq(d, 1, HEADER_SIZE))) = Ok

\* the complete records of the bytes d
CompleteRecords(d) == DecodeRecords(SubSeq(d, HEADER_SIZE + 1, Len(d)))

\* the items of the Reader up to now that are errors of the kind k
ErrItems(k) == {j \in 1..Len(yielded) : yielded[j].some /\ yielded[j].res.kind = k}

\* the items up to now that are records
OkItems == {j \in 1..Len(yielded) : yielded[j].some /\ yielded[j].res = Ok}

\* the Reader of a source that never fails, on a stream that is cut short:
\* every record it yields is a complete record of the stream, at its place,
\* and it reports TruncatedRecord
ReaderReportsTruncation ==
    (rstate = "open" /\ source.budget = -1 /\ Truncated(source.data)) =>
        /\ \A j \in OkItems :
            /\ j <= Len(CompleteRecords(source.data))
            /\ yielded[j].record = CompleteRecords(source.data)[j]
        /\ Len(yielded) = MaxItems => ErrItems("TruncatedRecord") # {}

\* MmapReader::new on a file that is cut short fails with InvalidMapSize
MmapRejectsTruncation ==
    (mstate # "none" /\ Truncated(file)) => mres = InvalidMapSize

\* load_to_vec on a file that is cut short fails with InvalidMapSize
LoadRejectsTruncation ==
    (lstate = "done" /\ Truncated(file)) => lout.res = InvalidMapSize

\* C21: for a stream whose last record is short by 1 to 23 bytes the Reader
\* reports TruncatedRecord and yields no record built from the incomplete
\* bytes, and on a file of the same bytes MmapReader::new and load_to_vec
\* fail with InvalidMapSize.
C21_TruncationIsReported ==
    /\ ReaderReportsTruncation
    /\ MmapRejectsTruncation
    /\ LoadRejectsTruncation

\* the byte offset at which the incomplete record of the bytes d begins
TruncationOffset(d) == HEADER_SIZE + RECORD_SIZE * Len(CompleteRecords(d))

\* no item before the j-th is an error
FirstErr(j) == \A m \in 1..(j - 1) : yielded[m].res = Ok

\* C22: the pos carried by TruncatedRecord is the byte offset at which the
\* incomplete record begins, 32 + 24 * c for a stream of c complete records,
\* also when the truncation is met in a refill after the first one (the
\* item is the first error of the Reader).
C22_TruncatedPos ==
    rstate = "open" =>
        \A j \in ErrItems("TruncatedRecord") :
            FirstErr(j) =>
                /\ Truncated(source.data)
                /\ yielded[j].res = TruncatedRecord(TruncationOffset(source.data))

\* a stream of as many complete records as the buffer holds, delivered in
\* reads smaller than a record: the truncation is met in the second refill
C22_Witness ==
    /\ rstate = "open"
    /\ source.budget = -1
    /\ source.chunk < RECORD_SIZE
    /\ Len(CompleteRecords(source.data)) = BufferRecords
    /\ Len(yielded) = BufferRecords + 1
    /\ reader.bytes_read = HEADER_SIZE + RECORD_SIZE * BufferRecords
    /\ yielded[Len(yielded)].res =
            TruncatedRecord(HEADER_SIZE + RECORD_SIZE * BufferRecords)

(***************************************************************************)
(* Properties of the Reader after an error                                 *)
(***************************************************************************)
\* C23: after next has yielded an Err item (TruncatedRecord or an I/O
\* failure of the source) every later call of next yields None: no further
\* Ok or Err item is emitted.
C23_ErrTerminates ==
    rstate = "open" =>
        \A j \in 1..Len(yielded) :
            (yielded[j].some /\ yielded[j].res # Ok) =>
                \A m \in (j + 1)..Len(yielded) : yielded[m] = None

(***************************************************************************)
(* Properties of MmapReader::new and MmapReader::slice                     *)
(***************************************************************************)
\* the header decoded from the first 32 bytes of the file
FileHeader == HeaderFromBytes(SubSeq(file, 1, HEADER_SIZE))

\* the number of bytes of the file after the header
FileRecordBytes == Len(file) - HEADER_SIZE

\* C24: MmapReader::new on a file of L >= 32 bytes with a valid header
\* succeeds iff (L - 32) mod 24 = 0, with len() = (L - 32) / 24 and header()
\* the decoded header, and fails with InvalidMapSize otherwise; with an
\* invalid header it fails with the validation error, whatever the size.
C24_MmapNewChecksHeaderThenSize ==
    (mstate # "none" /\ Len(file) >= HEADER_SIZE) =>
        IF Validate(FileHeader) # Ok
        THEN mstate = "failed" /\ mres = Validate(FileHeader)
        ELSE IF FileRecordBytes % RECORD_SIZE = 0
        THEN /\ mstate = "open"
             /\ mres = Ok
             /\ ReaderLen = FileRecordBytes \div RECORD_SIZE
             /\ mheader = FileHeader
        ELSE mstate = "failed" /\ mres = InvalidMapSize

\* a file with an invalid header and an incomplete record
C24_Witness ==
    /\ mstate = "failed"
    /\ mres = InvalidVersion(VERSION, 999)
    /\ FileRecordBytes % RECORD_SIZE # 0

\* slice has been called on the MmapReader
SliceReturned == mstate = "open" /\ sliced.res # Pending

\* the records of the file, decoded from its bytes after the header
FileRecords == DecodeRecords(SubSeq(file, HEADER_SIZE + 1, Len(file)))

\* C25: slice(start, end) succeeds iff start < len, end <= len and
\* end > start; on success it returns exactly end - start records, the
\* records of the file at the indices start..end in their order (so
\* slice(0, len) of a file with records returns them all); slice(len, len),
\* slice(0, len + 1) and every inverted range fail with InvalidIndex whose
\* max is len.
C25_SliceBounds ==
    SliceReturned =>
        LET len == Len(FileRecords)
            start == sliced.start
            end == sliced.end
        IN  /\ ReaderLen = len
            /\ sliced.res = Ok <=> (start < len /\ end <= len /\ end > start)
            /\ sliced.res = Ok =>
                /\ Len(sliced.records) = end - start
                /\ \A k \in 1..(end - start) : sliced.records[k] = FileRecords[start + k]
            /\ (sliced.res = Ok /\ start = 0 /\ end = len) => sliced.records = FileRecords
            /\ (start = len /\ end = len) \/ (start = 0 /\ end = len + 1) \/ end < start
                => sliced.res.kind = "InvalidIndex" /\ sliced.res.max = len
            /\ sliced.res # Ok => sliced.res.kind = "InvalidIndex" /\ sliced.res.max = len

\* a slice from the middle of a file of MaxStream records
C25_Witness ==
    /\ SliceReturned
    /\ ReaderLen = MaxStream
    /\ sliced.start = 1
    /\ sliced.end = MaxStream
    /\ sliced.res = Ok
    /\ Len(sliced.records) = MaxStream - 1

C27_ValidateOrder ==
    cstate = "validated" =>
        LET magic_ok == cin.magic = MAGIC
            version_ok == cin.version = VERSION
            bc_ok == 1 <= cin.bc_len /\ cin.bc_len <= 32
            umi_ok == 1 <= cin.umi_len /\ cin.umi_len <= 32
        IN  /\ cout = Ok <=> (magic_ok /\ version_ok /\ bc_ok /\ umi_ok)
            /\ ~magic_ok =>
                cout.kind = "InvalidMagicNumber" /\ cout.idx = cin.magic /\ cout.max = MAGIC
            /\ (magic_ok /\ ~version_ok) =>
                cout.kind = "InvalidVersion" /\ cout.idx = cin.version /\ cout.max = VERSION
            /\ (magic_ok /\ version_ok /\ ~bc_ok) =>
                cout.kind = "InvalidBarcodeLength" /\ cout.idx = cin.bc_len
            /\ (magic_ok /\ version_ok /\ bc_ok /\ ~umi_ok) =>
                cout.kind = "InvalidUmiLength" /\ cout.idx = cin.umi_len
            /\ (magic_ok /\ version_ok /\ cin.bc_len \in {1, 32} /\ cin.umi_len \in {1, 32})
                => cout = Ok
            /\ (cin.bc_len \in {0, 33} \/ cin.umi_len \in {0, 33}) => cout # Ok

\* a header whose version and both lengths are wrong: the version is reported
C27_Witness ==
    /\ cstate = "validated"
    /\ cin.magic = MAGIC
    /\ cin.version = 999
    /\ cin.bc_len = 33
    /\ cin.umi_len = 0
    /\ cout = InvalidVersion(VERSION, 999)

\* a header or a record has been encoded and decoded
Decoded == cstate \in {"header_decoded", "wide_header_decoded",
                       "record_decoded", "wide_record_decoded"}

\* C28: encoding and decoding are byte-exact inverses: Header::from_bytes of
\* the bytes of a header is that header, with all 64 flag bits and the 8
\* reserved bytes unchanged, Record::from_bytes of the bytes of a record is
\* that record, also for all-zero and all-max fields, and the encodings are
\* exactly 32 and 24 bytes long.
C28_CodecRoundTrip ==
    /\ Decoded => cout.back = cin
    /\ cstate \in {"header_decoded", "wide_header_decoded"} =>
        /\ Len(cout.bytes) = 32
        /\ cout.back.flags = cin.flags
        /\ cout.back.reserved = cin.reserved
        /\ SubSeq(cout.bytes, 25, 32) = cin.reserved
    /\ cstate \in {"record_decoded", "wide_record_decoded"} => Len(cout.bytes) = 24
    /\ cstate = "header_decoded" => cout.bytes = WideHeaderBytes(WidenHeader(cin))
    /\ cstate = "record_decoded" => cout.bytes = WideRecordBytes(WidenRecord(cin))

\* a header with the top flag bit and the reserved bytes in use
C28_Witness ==
    /\ cstate = "wide_header_decoded"
    /\ cin.flags = FlagBit(63)
    /\ cin.reserved = <<1, 2, 3, 4, 5, 6, 7, 8>>
    /\ cout.bytes[24] = 128
    /\ cout.back = cin

(***************************************************************************)
(* Properties of the order on Record                                       *)
(***************************************************************************)
\* the records of the tests of the order, in ascending order
OrderChain ==
    <<Record(0, 0, 0), Record(0, 0, 1), Record(0, 1, 0), Record(0, 1, 1),
      Record(1, 0, 0), Record(1, 0, 1), Record(1, 1, 0), Record(1, 1, 1)>>

\* C29: the order on Record is the ascending lexicographic order on
\* (barcode, umi, index): it is total, antisymmetric and transitive, a tie on
\* a prefix is decided by the next field, and
\* (0,0,0) < (0,0,1) < (0,1,0) < (0,1,1) < (1,0,0) < (1,0,1) < (1,1,0) < (1,1,1).
C29_RecordOrder ==
    cstate = "compared" =>
        LET a == cin[1]
            b == cin[2]
            c == cin[3]
            lex == \/ a.barcode < b.barcode
                   \/ a.barcode = b.barcode /\ a.umi < b.umi
                   \/ a.barcode = b.barcode /\ a.umi = b.umi /\ a.index < b.index
        IN  /\ cout.ab = Less <=> lex
            /\ cout.ab = Equal <=> a = b
            /\ cout.ab \in {Less, Equal, Greater}
            /\ cout.ab = Less <=> cout.ba = Greater
            /\ cout.ab = Greater <=> cout.ba = Less
            /\ (cout.ab # Greater /\ cout.ba # Greater) => a = b
            /\ (cout.ab = Less /\ cout.bc = Less) => cout.ac = Less
            /\ (cout.ab # Greater /\ cout.bc # Greater) => cout.ac # Greater
            /\ \A j \in 1..7 :
                (a = OrderChain[j] /\ b = OrderChain[j + 1]) => cout.ab = Less

\* a tie on the barcode decided by the umi against the index
C29_Witness ==
    /\ cstate = "compared"
    /\ cin[1] = Record(1, 0, 2)
    /\ cin[2] = Record(1, 1, 0)
    /\ cin[3] = Record(2, 0, 0)
    /\ cout.ab = Less
    /\ cout.bc = Less
    /\ cout.ac = Less

(***************************************************************************)
(* The bytes a writer holds                                                *)
(***************************************************************************)
\* the bytes the writer w has taken and not lost: those in its sink and the
\* first pos bytes of its buffer
Held(w) == w.inner.data \o SubSeq(w.buffer, 1, w.pos)

\* C30: while every operation on a writer has succeeded, the bytes in its
\* sink followed by the first pos bytes of its buffer are the 32 header bytes
\* (none for a headless writer) followed by the 24-byte encodings of all
\* accepted records in the order of the calls that accepted them, whatever
\* the interleaving of write_record, write_batch, write_iter and ingest; the
\* header is in the sink right after Writer::new, and after finish the sink
\* is exactly these 32 + 24 * N bytes.
C30_HeldBytes ==
    /\ (wstate = "open" /\ ~writer.inner.faulted) =>
        /\ Held(writer) = HeaderBytes(wheader) \o RecordsBytes(accepted)
        /\ Len(Held(writer)) = 32 + 24 * Len(accepted)
        /\ last.op = "new" => writer.inner.data = HeaderBytes(wheader) /\ writer.pos = 0
        /\ last.op = "finish" =>
            /\ writer.inner.data = HeaderBytes(wheader) \o RecordsBytes(accepted)
            /\ Len(writer.inner.data) = 32 + 24 * Len(accepted)
    /\ astate = "open" => Held(aux) = RecordsBytes(aux_held)

\* records written one by one, in a batch and by an ingest, in part in the
\* sink and in part in the buffer
C30_Witness ==
    /\ wstate = "open"
    /\ ~writer.inner.faulted
    /\ astate = "open"
    /\ last.op = "ingest"
    /\ last.res = Ok
    /\ last.n >= 1
    /\ Len(accepted) = MaxRecords
    /\ Len(writer.inner.data) > HEADER_SIZE
    /\ writer.pos > 0

(***************************************************************************)
(* Properties of the buffer of the writer                                  *)
(***************************************************************************)
\* a fresh writer after capacity / 24 calls of write_record
FilledByRecords ==
    write_iter(Writer_new(VecSink, HeaderNew(16, 12)).w,
               [k \in 1..(DEFAULT_BUFFER_SIZE \div RECORD_SIZE) |-> Record(k, 0, 0)]).w

\* C31: write_record flushes the buffer to the sink before copying iff
\* pos + 24 > capacity: capacity / 24 records written one by one into a fresh
\* writer cause no sink write of record bytes, and the next write_record
\* first writes all capacity bytes to the sink and leaves the new record as
\* the only buffered one (pos = 24).
C31_WriteRecordFlushesLazily ==
    [][(wstate = "open" /\ writer.inner.budget = -1 /\ WriteRecord) =>
          /\ last'.res = Ok
          /\ IF writer.pos + 24 > Len(writer.buffer)
             THEN /\ writer'.inner.data =
                        writer.inner.data \o SubSeq(writer.buffer, 1, writer.pos)
                  /\ writer'.pos = 24
                  /\ SubSeq(writer'.buffer, 1, 24) = RecordsBytes(StepBatch)
             ELSE /\ writer'.inner.data = writer.inner.data
                  /\ writer'.pos = writer.pos + 24
                  /\ SubSeq(writer'.buffer, writer.pos + 1, writer.pos + 24)
                        = RecordsBytes(StepBatch)
          /\ FilledByRecords.inner.data = HeaderBytes(HeaderNew(16, 12))
          /\ FilledByRecords.pos = DEFAULT_BUFFER_SIZE
          /\ LET w == write_record(FilledByRecords, Record(999, 0, 0)).w
             IN  /\ w.inner.data = HeaderBytes(HeaderNew(16, 12))
                        \o SubSeq(FilledByRecords.buffer, 1, DEFAULT_BUFFER_SIZE)
                 /\ w.pos = 24]_vars

\* the write_record after the buffer was filled without a sink write
C31_Witness ==
    /\ wstate = "open"
    /\ writer.inner.budget = -1
    /\ last.op = "write_record"
    /\ last.res = Ok
    /\ last.pos = DEFAULT_BUFFER_SIZE
    /\ writer.records_written = BufferRecords + 1
    /\ Len(writer.inner.data) = HEADER_SIZE + DEFAULT_BUFFER_SIZE
    /\ writer.pos = RECORD_SIZE

(***************************************************************************)
(* Properties of the Reader on sources that deliver short reads            *)
(***************************************************************************)
\* the first n items of the reader r
RECURSIVE ItemsFrom(_, _)
ItemsFrom(r, n) ==
    IF n = 0 THEN <<>> ELSE <<next(r).item>> \o ItemsFrom(next(r).w, n - 1)

\* Reader::new on a Cursor over the bytes d, which delivers all it is asked for
WholeReads(d) == Reader_new(Cursor(d))

\* C32: the items a Reader yields depend only on the bytes of the source,
\* not on how the source cuts them into reads: a source that delivers the
\* same bytes in short reads (also reads that split a record) yields what a
\* source delivering them whole yields, records and error.
C32_FragmentationIndependent ==
    (rstate \in {"open", "failed"} /\ source.budget = -1) =>
        /\ rnew.res = WholeReads(source.data).res
        /\ rstate = "open" =>
            /\ reader.header = WholeReads(source.data).w.header
            /\ yielded = ItemsFrom(WholeReads(source.data).w, Len(yielded))

\* a stream of two records and a part of a third in reads of 5 bytes: two
\* records, the error, the end
C32_Witness ==
    /\ rstate = "open"
    /\ source.budget = -1
    /\ source.chunk = 5
    /\ Len(source.data) = HEADER_SIZE + 2 * RECORD_SIZE + 7
    /\ Len(yielded) = 4
    /\ yielded[2] = SomeOk(Record(74565, 424080, 100))
    /\ yielded[3] = SomeErr(TruncatedRecord(HEADER_SIZE + 2 * RECORD_SIZE))
    /\ yielded[4] = None

(***************************************************************************)
(* Properties of the Reader at the end of the source                       *)
(***************************************************************************)
\* C33: once next has returned None because a refill obtained zero bytes the
\* eof flag is set and stays set: every later next returns None and performs
\* no further read on the source.
C33_EofIsFinal ==
    [][(rstate = "open" /\ ReadNext) =>
          /\ yielded'[Len(yielded')] = None => reader'.eof
          /\ reader.eof =>
                /\ yielded'[Len(yielded')] = None
                /\ reader'.eof
                /\ reader'.inner.reads = reader.inner.reads
                /\ reader' = reader]_vars

\* the reader of a stream without records after MaxItems calls: the header
\* and the refill that obtained nothing are the only reads
C33_Witness ==
    /\ rstate = "open"
    /\ reader.eof
    /\ Len(source.data) = HEADER_SIZE
    /\ source.chunk = HEADER_SIZE
    /\ Len(yielded) = MaxItems
    /\ yielded[1] = None
    /\ yielded[MaxItems] = None
    /\ reader.inner.reads = 2

\* the step is a call of next that yields TruncatedRecord
YieldsTruncated ==
    /\ rstate = "open"
    /\ ReadNext
    /\ yielded'[Len(yielded')].res.kind = "TruncatedRecord"

\* C34: when a refill obtains a number of bytes that is not a multiple of 24
\* it fails and leaves pos, cap and bytes_read unchanged: the next item is
\* the TruncatedRecord error and none of the complete records obtained in
\* that refill is yielded, before it or after it.
C34_FailedRefillKeepsCursor ==
    [][/\ YieldsTruncated =>
            /\ reader.pos >= reader.cap
            /\ reader'.pos = reader.pos
            /\ reader'.cap = reader.cap
            /\ reader'.bytes_read = reader.bytes_read
            /\ ~reader'.eof
            /\ source.budget = -1 =>
                /\ Cardinality(OkItems) * RECORD_SIZE = reader.bytes_read - HEADER_SIZE
                /\ yielded'[Len(yielded')].res.idx - reader.bytes_read =
                      RECORD_SIZE * (Len(CompleteRecords(source.data)) - Cardinality(OkItems))
       /\ (rstate = "open" /\ ReadNext /\ source.budget = -1
                /\ ErrItems("TruncatedRecord") # {}) =>
            yielded'[Len(yielded')] = None]_vars

\* a stream of one record and a part of the next: the refill obtains both,
\* the error is the first item and the record is never yielded
C34_Witness ==
    /\ rstate = "open"
    /\ source.budget = -1
    /\ Len(CompleteRecords(source.data)) = 1
    /\ Len(yielded) = MaxItems
    /\ yielded[1] = SomeErr(TruncatedRecord(HEADER_SIZE + RECORD_SIZE))
    /\ OkItems = {}
    /\ reader.bytes_read = HEADER_SIZE
    /\ reader.cap = 0

(***************************************************************************)
(* Properties of the slice calls of process_parallel                       *)
(***************************************************************************)
\* C35: for every len >= 0 and every requested thread count, each
\* slice(batch_start, batch_end) call of a worker satisfies
\* batch_start < batch_end <= len, and a worker with an empty range issues
\* no slice call: no worker and no call of process_parallel fails with
\* InvalidIndex, also for len = 0 and for more workers than records.
C35_SliceCallsInBounds ==
    /\ ret.kind # "InvalidIndex"
    /\ \A t \in Spawned :
        LET w == workers[t]
        IN  /\ w.result.kind # "InvalidIndex"
            /\ (w.state = "loop" /\ w.batch_start < w.end) =>
                /\ w.batch_start < BatchEnd(w.batch_start, w.end)
                /\ BatchEnd(w.batch_start, w.end) <= ReaderLen
                /\ SliceCheck(w.batch_start, BatchEnd(w.batch_start, w.end)) = Ok
            /\ w.state \in {"records", "batch"} =>
                /\ w.batch_start < w.batch_end
                /\ w.batch_end <= ReaderLen
                /\ Len(w.slice) = w.batch_end - w.batch_start
            /\ w.start = w.end =>
                /\ w.state \in {"loop", "done"}
                /\ w.slice = <<>>
                /\ log[t] = <<>>
                /\ w.result \in {Pending, Ok}

\* more workers than records: the call has returned Ok, a worker with an
\* empty range made no call and the last worker went through its records
C35_Witness ==
    /\ pc = "returned"
    /\ ret = Ok
    /\ ReaderLen = 1
    /\ num_threads = MaxThreads
    /\ workers[0].start = workers[0].end
    /\ workers[0].result = Ok
    /\ log[0] = <<>>
    /\ Len(log[num_threads - 1]) = 2

(***************************************************************************)
(* Properties of the counter of the writer after errors                    *)
(***************************************************************************)
\* C36: in every state of a writer, also after a write_record or write_batch
\* call returned a sink error, records_written * 24 is the number of record
\* bytes the writer has accepted, those handed to the sink plus the pos
\* bytes pending in the buffer: a call that returns an error adds no record
\* bytes to the buffer or the sink.
C36_CounterMatchesBytes ==
    wstate = "open" =>
        writer.records_written * RECORD_SIZE = Len(Held(writer)) - HEADER_SIZE

(***************************************************************************)
(* Properties of repeated ingest                                           *)
(***************************************************************************)
\* C37: after main.ingest(aux) has succeeded aux's sink is empty and aux's
\* cursor is 0, so a second ingest right after it adds no bytes to main and
\* leaves main.records_written unchanged; records written to aux after an
\* ingest are transferred exactly once by the next ingest.
C37_IngestTransfersOnce ==
    [][(Ingest /\ last'.res = Ok) =>
          /\ aux'.inner.data = <<>>
          /\ aux'.pos = 0
          /\ Held(aux') = <<>>
          /\ Held(writer') = Held(writer) \o RecordsBytes(aux_held)
          /\ writer'.records_written = writer.records_written + Len(aux_held)
          /\ aux_held = <<>> =>
                /\ Held(aux) = <<>>
                /\ Held(writer') = Held(writer)
                /\ writer'.inner.data = writer.inner.data
                /\ writer'.records_written = writer.records_written
          /\ ingest(writer', aux').res = Ok
          /\ Held(ingest(writer', aux').w) = Held(writer')
          /\ ingest(writer', aux').w.records_written = writer'.records_written]_vars

\* records were written to aux and ingested, and an ingest of the empty aux
\* has followed
C37_Witness ==
    /\ wstate = "open"
    /\ astate = "open"
    /\ aux.records_written >= 2
    /\ aux_held = <<>>
    /\ last.op = "ingest"
    /\ last.res = Ok
    /\ last.n = 0
    /\ writer.records_written >= 2

(***************************************************************************)
(* C38: into_inner neither flushes nor runs the drop-time finish.  The     *)
(* sink it returns is the writer's sink exactly as it was before the call: *)
(* same bytes, same flushed mark, same fault state; the record bytes       *)
(* pending in buffer[..pos] are not part of it, and no later step of the   *)
(* program adds them to the sink taken.                                    *)
(***************************************************************************)
C38_IntoInnerDoesNotFlush ==
    [][/\ IntoInner =>
             /\ sink' = writer.inner
             /\ Len(sink'.data) + writer.pos = Len(Held(writer))
             /\ writer.pos > 0 => sink'.data # Held(writer)
       /\ wstate = "taken" => sink' = sink]_vars

C38_Witness ==
    /\ wstate = "taken"
    /\ last.op = "write_record" /\ last.res = Ok
    /\ writer.pos >= RECORD_SIZE
    /\ sink.data = writer.inner.data
    /\ Len(sink.data) = HEADER_SIZE
    /\ Len(accepted) >= 1

(***************************************************************************)
(* C39: write_batch on a writer whose sink does not fail returns Ok for    *)
(* every buffer state, the buffer exactly full at entry included.  The     *)
(* loop of write_slice is followed iteration by iteration: Iterations      *)
(* gives the writer and the bytes left before each of the first n          *)
(* iterations, and an iteration either takes at least one byte of those    *)
(* left, or finds the buffer full, takes none and leaves it flushed.       *)
(***************************************************************************)
Unfinished == "Unfinished"

\* one iteration of the while loop of write_slice, from the writer w with the
\* bytes `remaining` left: the writer after it, its result, the bytes left
write_slice_iteration(w, remaining) ==
    LET available == Len(w.buffer) - w.pos
        to_write == Min(Len(remaining), available)
        w1 == CopyIn(w, SubSeq(remaining, 1, to_write))
        f == IF w1.pos >= Len(w1.buffer) THEN flush_buffer(w1) ELSE Done(w1, Ok)
    IN  [w |-> f.w, res |-> f.res,
         remaining |-> SubSeq(remaining, to_write + 1, Len(remaining))]

\* the loop of write_slice stopped after at most n iterations
RECURSIVE write_slice_loop_within(_, _, _)
write_slice_loop_within(w, remaining, n) ==
    IF remaining = <<>> THEN Done(w, Ok)
    ELSE IF n = 0 THEN Done(w, Unfinished)
    ELSE LET it == write_slice_iteration(w, remaining)
         IN  IF it.res # Ok THEN Done(it.w, it.res)
             ELSE write_slice_loop_within(it.w, it.remaining, n - 1)

\* an iteration makes progress: it takes a byte, or it empties a full buffer
IterationProgresses(w, remaining) ==
    LET it == write_slice_iteration(w, remaining)
    IN  \/ Len(it.remaining) < Len(remaining)
        \/ /\ w.pos = Len(w.buffer)
           /\ it.remaining = remaining
           /\ it.w.pos = 0
           /\ it.w.inner.data = w.inner.data \o w.buffer

\* the iterations a call of the loop on `bytes` needs at most: one that finds
\* the buffer full, one for each buffer filled, one for the rest
LoopBound(w, bytes) == Len(bytes) \div Len(w.buffer) + 2

SinkNeverFails(w) == w.inner.budget = -1

C39_WriteBatchTerminates ==
    [][(/\ wstate = "open" /\ last'.op = "write_batch"
        /\ SinkNeverFails(writer)
        /\ WriteBatch) =>
          LET bytes == RecordsBytes(StepBatch)
              it == write_slice_iteration(writer, bytes)
          IN  /\ last'.res = Ok
              /\ last'.n = Len(StepBatch)
              /\ Held(writer') = Held(writer) \o bytes
              /\ writer'.records_written = writer.records_written + last'.n
              /\ Len(bytes) <= Len(writer.buffer) =>
                    /\ write_slice_loop_within(writer, bytes, LoopBound(writer, bytes))
                          = write_slice_loop(writer, bytes)
                    /\ bytes # <<>> =>
                          /\ IterationProgresses(writer, bytes)
                          /\ it.remaining # <<>> => IterationProgresses(it.w, it.remaining)
              /\ (writer.pos = Len(writer.buffer) /\ bytes # <<>>) =>
                    /\ writer'.inner.data = writer.inner.data \o writer.buffer
                          \o (IF Len(bytes) >= Len(writer.buffer) THEN bytes ELSE <<>>)
                    /\ writer'.pos = IF Len(bytes) > Len(writer.buffer) THEN 0
                                     ELSE Len(bytes) % Len(writer.buffer)]_vars

C39_Witness ==
    /\ wstate = "open"
    /\ last.op = "write_batch" /\ last.res = Ok
    /\ last.pos = DEFAULT_BUFFER_SIZE
    /\ last.n = 1
    /\ writer.pos = RECORD_SIZE
    /\ writer.inner.budget = -1 /\ ~writer.inner.faulted
    /\ Len(writer.inner.data) = HEADER_SIZE + DEFAULT_BUFFER_SIZE

(***************************************************************************)
(* C40: MmapReader::new on a file shorter than the 32 bytes of a header,   *)
(* the empty file included, returns an error value.                        *)
(***************************************************************************)
C40_ShortFileIsAnError ==
    (mstate # "none" /\ Len(file) < HEADER_SIZE) => mres.tag = "Err"

=============================================================================
